---- MODULE Spec2Model ----
(***************************************************************************)
(* Instant-query orchestration of QMT-StockAPI (instant_query.py) together *)
(* with the candle collector (AllKLineData.py) and the real-time monitor    *)
(* (RealTimePrice.py) it drives.                                            *)
(*                                                                          *)
(* Text is modelled as a sequence of one-character strings, so that         *)
(* str.strip, str.upper, str.replace and the regular expressions of         *)
(* normalize_stock_code are computed character by character.                *)
(***************************************************************************)
EXTENDS Integers, Sequences, FiniteSets, TLC

\* Python's None where a text would stand
None == "None"
\* an optional value (a DataFrame, a price dict, a file name): Nothing is
\* Python's None, Some(v) is the value v
Nothing == <<>>
Some(v) == <<v>>
\* a threading.Lock that nobody holds (its holder is a call number otherwise)
Unlocked == 0

\* ------------------------------------------------------------------------
\* Bounds of the model
\* ------------------------------------------------------------------------
\* number of concurrent perform_instant_update calls
NumCallers == 2
\* largest number of entries in one answer of the calendar provider
MaxEntries == 2

Callers == 1..NumCallers

\* ------------------------------------------------------------------------
\* Characters and strings
\* ------------------------------------------------------------------------
Digits == {"0", "1", "2", "3", "4", "5", "6", "7", "8", "9"}
Whitespace == {" ", "\t", "\n"}
Separators == {".", "_", "-"}

\* str.upper, one character
UpperChar(ch) ==
    CASE ch = "s" -> "S"
      [] ch = "h" -> "H"
      [] ch = "z" -> "Z"
      [] ch = "b" -> "B"
      [] ch = "j" -> "J"
      [] OTHER -> ch

\* str.upper
Upper(s) == [i \in 1..Len(s) |-> UpperChar(s[i])]

RECURSIVE LStrip(_)
LStrip(s) == IF s # <<>> /\ Head(s) \in Whitespace THEN LStrip(Tail(s)) ELSE s

RECURSIVE RStrip(_)
RStrip(s) ==
    IF s # <<>> /\ s[Len(s)] \in Whitespace
    THEN RStrip(SubSeq(s, 1, Len(s) - 1))
    ELSE s

\* str.strip
Strip(s) == RStrip(LStrip(s))

\* str.replace('.', '_')
ReplaceDot(s) == [i \in 1..Len(s) |-> IF s[i] = "." THEN "_" ELSE s[i]]

\* \d{6} at positions from..from+5
SixDigitsAt(s, from) ==
    /\ Len(s) >= from + 5
    /\ \A i \in from..(from + 5) : s[i] \in Digits

\* (SH|SZ) at positions from, from+1
ExchangeAt(s, from) ==
    /\ Len(s) >= from + 1
    /\ s[from] = "S"
    /\ s[from + 1] \in {"H", "Z"}

\* re.match(r"^\d{6}\.(SH|SZ)$", code)
MatchStandard(s) ==
    /\ Len(s) = 9
    /\ SixDigitsAt(s, 1)
    /\ s[7] = "."
    /\ ExchangeAt(s, 8)

\* re.match(r"^(\d{6})[._-]?(SH|SZ)$", code)
MatchCodeFirst(s) ==
    \/ /\ Len(s) = 8
       /\ SixDigitsAt(s, 1)
       /\ ExchangeAt(s, 7)
    \/ /\ Len(s) = 9
       /\ SixDigitsAt(s, 1)
       /\ s[7] \in Separators
       /\ ExchangeAt(s, 8)

\* re.match(r"^(SH|SZ)[._-]?(\d{6})$", code)
MatchExchangeFirst(s) ==
    \/ /\ Len(s) = 8
       /\ ExchangeAt(s, 1)
       /\ SixDigitsAt(s, 3)
    \/ /\ Len(s) = 9
       /\ ExchangeAt(s, 1)
       /\ s[3] \in Separators
       /\ SixDigitsAt(s, 4)

\* re.match(r"^\d{6}$", code)
MatchBareCode(s) == Len(s) = 6 /\ SixDigitsAt(s, 1)

Ok(v) == [ok |-> TRUE, value |-> v]
Err(e) == [ok |-> FALSE, value |-> e]

\* a plausible slip: a bare six-digit code is given the Shanghai suffix
normalize_guess_exchange(code) ==
    IF code = <<>>
    THEN Err("EmptyCode")
    ELSE LET c == Upper(Strip(code)) IN
         IF MatchStandard(c) THEN Ok(c)
         ELSE IF MatchCodeFirst(c)
              THEN Ok(SubSeq(c, 1, 6) \o <<".">> \o SubSeq(c, Len(c) - 1, Len(c)))
         ELSE IF MatchExchangeFirst(c)
              THEN Ok(SubSeq(c, Len(c) - 5, Len(c)) \o <<".">> \o SubSeq(c, 1, 2))
         ELSE IF MatchBareCode(c) THEN Ok(c \o <<".", "S", "H">>)
         ELSE Err("InvalidFormat")

\* normalize_stock_code: Ok(canonical) or Err(reason) for the ValueError raised
normalize_stock_code(code) ==
    IF code = <<>>
    THEN Err("EmptyCode")
    ELSE LET c == Upper(Strip(code)) IN
         IF MatchStandard(c) THEN Ok(c)
         ELSE IF MatchCodeFirst(c)
              THEN Ok(SubSeq(c, 1, 6) \o <<".">> \o SubSeq(c, Len(c) - 1, Len(c)))
         ELSE IF MatchExchangeFirst(c)
              THEN Ok(SubSeq(c, Len(c) - 5, Len(c)) \o <<".">> \o SubSeq(c, 1, 2))
         ELSE IF MatchBareCode(c) THEN Err("MissingExchange")
         ELSE Err("InvalidFormat")

\* ------------------------------------------------------------------------
\* Dictionaries (dict) as functions with a growing domain
\* ------------------------------------------------------------------------
EmptyMap == [x \in {} |-> None]
Put(map, k, v) == [x \in (DOMAIN map) \cup {k} |-> IF x = k THEN v ELSE map[x]]
Range(s) == {s[i] : i \in DOMAIN s}

\* ------------------------------------------------------------------------
\* File names
\* ------------------------------------------------------------------------
P_1m == <<"1", "m">>
P_1M == <<"1", "M">>
P_1d == <<"1", "d">>
S_1month == <<"1", "m", "o", "n", "t", "h">>
S_front == <<"f", "r", "o", "n", "t">>
S_kline_csv == <<"_", "k", "l", "i", "n", "e", ".", "c", "s", "v">>
S_real_time_price_json ==
    <<"_", "r", "e", "a", "l", "_", "t", "i", "m", "e", "_",
      "p", "r", "i", "c", "e", ".", "j", "s", "o", "n">>

\* a plausible slip: the period used in the file name as it is
FilenamePeriod_as_given(period) == period
\* period_map.get(period, period) / filename_period_map.get(period, period)
FilenamePeriod(period) == IF period = P_1M THEN S_1month ELSE period

\* "_".join(parts)
RECURSIVE JoinUnderscore(_)
JoinUnderscore(parts) ==
    IF parts = <<>> THEN <<>>
    ELSE IF Len(parts) = 1 THEN parts[1]
    ELSE parts[1] \o <<"_">> \o JoinUnderscore(Tail(parts))

\* _expected_kline_filename
expected_kline_filename(stock_code, period, dividend_type) ==
    ReplaceDot(stock_code) \o <<"_">> \o FilenamePeriod(period) \o <<"_">>
        \o dividend_type \o S_kline_csv

\* the file name _save_data builds for an instant query: no special date, no
\* custom range, no count limit, CSV output
save_data_filename(stock_code, dividend_type, period) ==
    JoinUnderscore(<<ReplaceDot(stock_code), FilenamePeriod(period), dividend_type>>)
        \o S_kline_csv

\* the default file name of RealTimePriceMonitor.save_to_json
realtime_filename(stock_code) == ReplaceDot(stock_code) \o S_real_time_price_json

\* ------------------------------------------------------------------------
\* Inputs of perform_instant_update
\* ------------------------------------------------------------------------
Code_600689_SH == <<"6", "0", "0", "6", "8", "9", ".", "S", "H">>
Code_sh600689 == <<"s", "h", "6", "0", "0", "6", "8", "9">>
Code_000001SH == <<"0", "0", "0", "0", "0", "1", "S", "H">>
Code_600689 == <<"6", "0", "0", "6", "8", "9">>

Args(code, periods, rt, limit) ==
    [stock_code |-> code, dividend_type |-> S_front, periods |-> periods,
     include_realtime |-> rt, preview_limit |-> limit]

\* the requests made: two spellings of one symbol, a second symbol and a bare
\* code; candles and quote, quote only (include_periods = []), candles only;
\* preview_limit is any integer: one row, a negative number, zero
Requests ==
    {Args(Code_sh600689, <<P_1M>>, TRUE, 1),
     Args(Code_600689_SH, <<>>, TRUE, 1),
     Args(Code_000001SH, <<P_1m, P_1M>>, FALSE, -1),
     Args(Code_600689, <<P_1m, P_1M>>, TRUE, 1),
     Args(Code_sh600689, <<P_1M>>, FALSE, 0)}

NoArgs == [stock_code |-> <<>>, dividend_type |-> <<>>, periods |-> <<>>,
           include_realtime |-> FALSE, preview_limit |-> 0]

\* ------------------------------------------------------------------------
\* The data provider (xtdata), an external collaborator
\* ------------------------------------------------------------------------
\* the DataFrame the provider returns to call c: two candles, oldest first
Candles(c) == <<[by |-> c, k |-> "older"], [by |-> c, k |-> "latest"]>>

\* what download_history_data / get_market_data_ex can do for one period:
\* raise, answer without the symbol, answer an empty series, answer rows
CandleResponses(c) ==
    {[kind |-> "raise", rows |-> <<>>],
     [kind |-> "missing", rows |-> <<>>],
     [kind |-> "empty", rows |-> <<>>]}
    \cup {[kind |-> "rows", rows |-> Candles(c)]}

\* what get_full_tick (with the candle fallback) can do
TickResponses == {"tick", "absent", "raise"}

\* ------------------------------------------------------------------------
\* State
\* ------------------------------------------------------------------------
VARIABLES
    pc,               \* where each perform_instant_update call is
    args,             \* its arguments
    normalized_code,  \* its normalized_code
    lock,             \* its local `lock` (a lock object's identity)
    result,           \* its result dict
    kline,            \* its candle sub-task (_collect_kline)
    realtime,         \* its real-time sub-task (_collect_realtime)
    consumed,         \* the futures its as_completed loop has consumed
    realtime_data,    \* its local realtime_data
    GLOBAL_LOCK,      \* _GLOBAL_LOCK: the call holding it, or Unlocked
    STOCK_LOCKS,      \* _STOCK_LOCKS: key -> lock object
    lockObjs,         \* the threading.Lock objects created: holder or Unlocked
    disk,             \* the data directory: file name -> content
    nz_in,            \* normalize_stock_code applied alone: its argument
    nz_out,           \* ... and its outcome
    cal_module,       \* the module whose calendar functions the process calls
    cal_now,          \* datetime.now(): day of the year, minute of the day
    trading_dates_cache,  \* _trading_dates_cache: days_back -> list of dates
    api_warning_shown,    \* _api_warning_shown
    provider_calls,   \* calls made to the calendar provider so far
    cal_returned,     \* days_back -> what get_trading_dates_from_xtdata returned last
    cal_last,         \* the last calendar call and what it returned
    warnings,         \* the degradation warnings printed so far
    th,               \* overlapping get_trading_dates_from_xtdata calls: each one's position and locals
    kq_req,           \* get_kline_data called with dates: its arguments and the clock
    kq_out,           \* ... and its outcome
    fn_req,           \* a candle file to name: symbol, dividend type, period
    fn_out            \* ... the name expected and the name written

orch_vars == <<pc, args, normalized_code, lock, result, kline, realtime, consumed,
               realtime_data, GLOBAL_LOCK, STOCK_LOCKS, lockObjs, disk>>
nz_vars == <<nz_in, nz_out>>
cal_vars == <<cal_module, cal_now, trading_dates_cache, api_warning_shown,
              provider_calls, cal_returned, cal_last, warnings>>
aux_vars == <<th, kq_req, kq_out, fn_req, fn_out>>
vars == <<pc, args, normalized_code, lock, result, kline, realtime, consumed,
          realtime_data, GLOBAL_LOCK, STOCK_LOCKS, lockObjs, disk, nz_in, nz_out,
          cal_module, cal_now, trading_dates_cache, api_warning_shown,
          provider_calls, cal_returned, cal_last, warnings, th, kq_req, kq_out,
          fn_req, fn_out>>

\* before `result` is built
NoResult == [success |-> FALSE, stock_code |-> <<>>, kline_files |-> EmptyMap,
             kline_preview |-> EmptyMap, realtime_file |-> Nothing,
             realtime_data |-> Nothing, message |-> ""]
NoTask == [st |-> "absent", log |-> <<>>, results |-> EmptyMap]
NoQuote == [st |-> "absent", value |-> Nothing]

InitOrch ==
    /\ pc = [c \in Callers |-> "idle"]
    /\ args = [c \in Callers |-> NoArgs]
    /\ normalized_code = [c \in Callers |-> <<>>]
    /\ lock = [c \in Callers |-> 0]   \* no lock object yet; they are numbered from 1
    /\ result = [c \in Callers |-> NoResult]
    /\ kline = [c \in Callers |-> NoTask]
    /\ realtime = [c \in Callers |-> NoQuote]
    /\ consumed = [c \in Callers |-> {}]
    /\ realtime_data = [c \in Callers |-> Nothing]
    /\ GLOBAL_LOCK = Unlocked
    /\ STOCK_LOCKS = EmptyMap
    /\ lockObjs = <<>>
    /\ disk = EmptyMap

\* normalize_stock_code not applied yet
NotApplied == Err("NotApplied")

NoCalls == [holiday |-> 0, dates |-> 0]
NoAnswer == [op |-> "none", days_back |-> 0, dates |-> <<>>, date |-> <<>>,
             latest |-> <<>>, source |-> "none"]

\* no calendar function has been called
InitCalendar ==
    /\ trading_dates_cache = EmptyMap
    /\ api_warning_shown = FALSE
    /\ provider_calls = NoCalls
    /\ cal_returned = EmptyMap
    /\ cal_last = NoAnswer
    /\ warnings = 0

\* the calendar functions are not called and the clock is not read
CalendarIdle ==
    /\ cal_module = "none"
    /\ cal_now = [day |-> 0, minute |-> 0]
    /\ InitCalendar

\* no overlapping calendar calls
NoThread == [pc |-> "idle", days_back |-> 0, failed |-> FALSE, result |-> <<>>,
             calls |-> 0]
ThreadsIdle == th = [c \in Callers |-> NoThread]

\* get_kline_data is not called with dates
NoDatedRequest == [period |-> <<>>, start_date |-> Nothing, end_date |-> Nothing,
                   count_limit |-> Nothing]
NotCalled == [st |-> "none"]
KlineIdle ==
    /\ kq_req = NoDatedRequest
    /\ kq_out = NotCalled

\* no file is named alone
NoNaming == [stock_code |-> <<>>, dividend_type |-> <<>>, period |-> <<>>]
NotNamed == [expected |-> <<>>, written |-> <<>>]
NamesIdle ==
    /\ fn_req = NoNaming
    /\ fn_out = NotNamed

AuxIdle == ThreadsIdle /\ KlineIdle /\ NamesIdle

Init ==
    /\ InitOrch
    /\ nz_in = <<>>
    /\ nz_out = NotApplied
    /\ CalendarIdle
    /\ AuxIdle

\* ------------------------------------------------------------------------
\* _get_stock_lock
\* ------------------------------------------------------------------------
\* a plausible slip: one registry key, hence one lock, for every symbol
LockKey_shared(stock_code) == <<>>

\* normalized = stock_code.upper()
LockKey(stock_code) == Upper(stock_code)

\* a plausible slip: the registry is read and written without _GLOBAL_LOCK
GlobalLock_not_taken == TRUE

\* with _GLOBAL_LOCK: entry is possible when nobody holds the mutex
GlobalLockFree == GLOBAL_LOCK = Unlocked

\* a plausible slip: a new Lock for every call, whatever the registry holds
NeedsInsert_always(key) == TRUE

\* if normalized not in _STOCK_LOCKS
NeedsInsert(key) == key \notin DOMAIN STOCK_LOCKS

\* enter `with _GLOBAL_LOCK` and test the registry
GetLockEnter(c) ==
    /\ pc[c] = "get_lock"
    /\ GlobalLockFree
    /\ GLOBAL_LOCK' = c
    /\ pc' = [pc EXCEPT ![c] = IF NeedsInsert(LockKey(normalized_code[c]))
                               THEN "gl_insert" ELSE "gl_return"]
    /\ UNCHANGED <<args, normalized_code, lock, result, kline, realtime, consumed,
                   realtime_data, STOCK_LOCKS, lockObjs, disk, nz_vars, cal_vars, aux_vars>>

\* the result dict as built before the lock is taken, with the expected file
\* name of every requested period
InitialResult(code, a) ==
    [success |-> FALSE,
     stock_code |-> code,
     kline_files |-> [p \in Range(a.periods) |->
                        expected_kline_filename(code, p, a.dividend_type)],
     kline_preview |-> EmptyMap,
     realtime_file |-> Nothing,
     realtime_data |-> Nothing,
     message |-> ""]

\* the registry after `_STOCK_LOCKS[normalized] = threading.Lock()`, the new
\* lock object being number id
RegistryInsert(registry, key, id) == Put(registry, key, id)

\* the rest of `with _GLOBAL_LOCK`: insert a new lock when the test said so,
\* return _STOCK_LOCKS[normalized] and leave the mutex; then the caller builds
\* its result dict
GetLockReturn(c) ==
    /\ pc[c] \in {"gl_insert", "gl_return"}
    /\ LET key == LockKey(normalized_code[c])
           inserting == pc[c] = "gl_insert"
           registry == IF inserting
                       THEN RegistryInsert(STOCK_LOCKS, key, Len(lockObjs) + 1)
                       ELSE STOCK_LOCKS
       IN /\ STOCK_LOCKS' = registry
          /\ lockObjs' = IF inserting THEN Append(lockObjs, Unlocked) ELSE lockObjs
          /\ lock' = [lock EXCEPT ![c] = registry[key]]
    /\ GLOBAL_LOCK' = Unlocked
    /\ result' = [result EXCEPT ![c] = InitialResult(normalized_code[c], args[c])]
    /\ pc' = [pc EXCEPT ![c] = "acquire"]
    /\ UNCHANGED <<args, normalized_code, kline, realtime, consumed, realtime_data,
                   disk, nz_vars, cal_vars, aux_vars>>

\* ------------------------------------------------------------------------
\* perform_instant_update
\* ------------------------------------------------------------------------
\* a plausible slip: the lock is looked up with the raw symbol before the
\* symbol is validated
Call_lock_before_validate(c) ==
    /\ pc[c] = "idle"
    /\ \E a \in Requests :
          LET n == normalize_stock_code(a.stock_code) IN
          /\ args' = [args EXCEPT ![c] = a]
          /\ IF n.ok
             THEN /\ normalized_code' = [normalized_code EXCEPT ![c] = n.value]
                  /\ pc' = [pc EXCEPT ![c] = "get_lock"]
                  /\ UNCHANGED <<STOCK_LOCKS, lockObjs>>
             ELSE /\ normalized_code' = normalized_code
                  /\ pc' = [pc EXCEPT ![c] = "raised"]
                  /\ STOCK_LOCKS' = Put(STOCK_LOCKS, Upper(a.stock_code),
                                        Len(lockObjs) + 1)
                  /\ lockObjs' = Append(lockObjs, Unlocked)
    /\ UNCHANGED <<lock, result, kline, realtime, consumed, realtime_data,
                   GLOBAL_LOCK, disk, nz_vars, cal_vars, aux_vars>>

\* entry with a request of a given set: normalize the symbol; a ValueError
\* leaves the function at once
CallFrom(c, requests) ==
    /\ pc[c] = "idle"
    /\ \E a \in requests :
          LET n == normalize_stock_code(a.stock_code) IN
          /\ args' = [args EXCEPT ![c] = a]
          /\ IF n.ok
             THEN /\ normalized_code' = [normalized_code EXCEPT ![c] = n.value]
                  /\ pc' = [pc EXCEPT ![c] = "get_lock"]
             ELSE /\ normalized_code' = normalized_code
                  /\ pc' = [pc EXCEPT ![c] = "raised"]
    /\ UNCHANGED <<lock, result, kline, realtime, consumed, realtime_data,
                   GLOBAL_LOCK, STOCK_LOCKS, lockObjs, disk, nz_vars, cal_vars, aux_vars>>

\* entry with any request
Call(c) == CallFrom(c, Requests)

\* the futures submitted by a call
Submitted(c) ==
    (IF args[c].periods # <<>> THEN {"kline"} ELSE {})
    \cup (IF args[c].include_realtime THEN {"realtime"} ELSE {})

\* with lock: ... executor.submit(_collect_kline), executor.submit(_collect_realtime)
LockAcquire(c) ==
    /\ pc[c] = "acquire"
    /\ lockObjs[lock[c]] = Unlocked
    /\ lockObjs' = [lockObjs EXCEPT ![lock[c]] = c]
    /\ kline' = [kline EXCEPT ![c].st =
                    IF args[c].periods # <<>> THEN "running" ELSE "absent"]
    /\ realtime' = [realtime EXCEPT ![c].st =
                    IF args[c].include_realtime THEN "running" ELSE "absent"]
    /\ pc' = [pc EXCEPT ![c] = "join"]
    /\ UNCHANGED <<args, normalized_code, lock, result, consumed, realtime_data,
                   GLOBAL_LOCK, STOCK_LOCKS, disk, nz_vars, cal_vars, aux_vars>>

\* ------------------------------------------------------------------------
\* The candle sub-task: KLineDataCollector.collect_all_data
\* ------------------------------------------------------------------------
\* get_kline_data: the DataFrame returned (processed, saved and stored in
\* self.results by the caller below), or None when the provider raised
\* (caught), the symbol is missing from the answer, or the series is empty
get_kline_data(resp) ==
    IF resp.kind = "raise" THEN Nothing
    ELSE IF resp.kind = "missing" THEN Nothing
    ELSE IF resp.kind = "empty" THEN Nothing
    ELSE Some(resp.rows)

\* a task that raised: its collector, local to _collect_kline, is gone
Lost == [st |-> "raised", log |-> <<>>, results |-> EmptyMap]

\* a plausible slip: the loop is left at the first period without data
CollectStep_stops_on_failure(c) ==
    /\ kline[c].st = "running"
    /\ LET i == Len(kline[c].log) + 1
           period == args[c].periods[i]
           fname == save_data_filename(normalized_code[c], args[c].dividend_type, period)
       IN \E resp \in CandleResponses(c) :
            LET df == get_kline_data(resp) IN
            /\ disk' = IF df # Nothing THEN Put(disk, fname, df[1]) ELSE disk
            /\ kline' = [kline EXCEPT
                           ![c].log = Append(@, IF df # Nothing THEN "df" ELSE "None"),
                           ![c].results = IF df # Nothing THEN Put(@, period, df[1]) ELSE @,
                           ![c].st = IF i = Len(args[c].periods) \/ df = Nothing
                                     THEN "returned" ELSE "running"]
    /\ UNCHANGED <<pc, args, normalized_code, lock, result, realtime, consumed,
                   realtime_data, GLOBAL_LOCK, STOCK_LOCKS, lockObjs, nz_vars, cal_vars, aux_vars>>

\* a plausible slip: the periods are taken from the end of the list
CollectStep_reversed(c) ==
    /\ kline[c].st = "running"
    /\ LET n == Len(args[c].periods)
           i == n - Len(kline[c].log)
           period == args[c].periods[i]
           fname == save_data_filename(normalized_code[c], args[c].dividend_type, period)
       IN \E resp \in CandleResponses(c) :
            LET df == get_kline_data(resp) IN
            /\ disk' = IF df # Nothing THEN Put(disk, fname, df[1]) ELSE disk
            /\ kline' = [kline EXCEPT
                           ![c].log = Append(@, IF df # Nothing THEN "df" ELSE "None"),
                           ![c].results = IF df # Nothing THEN Put(@, period, df[1]) ELSE @,
                           ![c].st = IF i = 1 THEN "returned" ELSE "running"]
    /\ UNCHANGED <<pc, args, normalized_code, lock, result, realtime, consumed,
                   realtime_data, GLOBAL_LOCK, STOCK_LOCKS, lockObjs, nz_vars, cal_vars, aux_vars>>

\* one iteration of `for i, period in enumerate(periods, 1)`; after the last
\* one the task prints its summary and returns, unless that print raises
CollectStep(c) ==
    /\ kline[c].st = "running"
    /\ LET i == Len(kline[c].log) + 1
           period == args[c].periods[i]
           fname == save_data_filename(normalized_code[c], args[c].dividend_type, period)
       IN \E resp \in CandleResponses(c), ending \in {"returned", "raised"} :
            LET df == get_kline_data(resp) IN
            /\ disk' = IF df # Nothing THEN Put(disk, fname, df[1]) ELSE disk
            /\ kline' = [kline EXCEPT ![c] =
                           IF i = Len(args[c].periods) /\ ending = "raised"
                           THEN Lost
                           ELSE [st |-> IF i = Len(args[c].periods)
                                        THEN "returned" ELSE "running",
                                 log |-> Append(@.log, IF df # Nothing THEN "df" ELSE "None"),
                                 results |-> IF df # Nothing
                                             THEN Put(@.results, period, df[1])
                                             ELSE @.results]]
    /\ UNCHANGED <<pc, args, normalized_code, lock, result, realtime, consumed,
                   realtime_data, GLOBAL_LOCK, STOCK_LOCKS, lockObjs, nz_vars, cal_vars, aux_vars>>

\* an exception no handler of the collector catches (a print to a closed or
\* mis-encoded stdout in collect_all_data) ends the task before or between
\* two periods
CollectRaise(c) ==
    /\ kline[c].st = "running"
    /\ kline' = [kline EXCEPT ![c] = Lost]
    /\ UNCHANGED <<pc, args, normalized_code, lock, result, realtime, consumed,
                   realtime_data, GLOBAL_LOCK, STOCK_LOCKS, lockObjs, disk, nz_vars, cal_vars, aux_vars>>

\* ------------------------------------------------------------------------
\* The real-time sub-task: RealTimePriceMonitor
\* ------------------------------------------------------------------------
\* get_real_time_price: the price dict, or None when nothing could be read or
\* the provider raised (caught)
get_real_time_price(code, resp) ==
    IF resp = "tick" THEN Some([stock_code |-> code, current_price |-> "lastPrice"])
    ELSE Nothing

\* price = monitor.get_real_time_price(); if price: monitor.save_to_json(price)
RealtimeRun(c) ==
    /\ realtime[c].st = "running"
    /\ \E resp \in TickResponses :
         LET price == get_real_time_price(normalized_code[c], resp) IN
         /\ disk' = IF price # Nothing
                    THEN Put(disk, realtime_filename(price[1].stock_code), price)
                    ELSE disk
         /\ realtime' = [realtime EXCEPT ![c] = [st |-> "returned", value |-> price]]
    /\ UNCHANGED <<pc, args, normalized_code, lock, result, kline, consumed,
                   realtime_data, GLOBAL_LOCK, STOCK_LOCKS, lockObjs, nz_vars, cal_vars, aux_vars>>

\* an exception escaping _collect_realtime: raised inside an except handler
\* of the monitor, whose prints are not themselves guarded, either in
\* get_real_time_price (nothing written) or in save_to_json after the file
\* was written
RealtimeRaise(c) ==
    /\ realtime[c].st = "running"
    /\ \E written \in BOOLEAN :
         disk' = IF written
                 THEN Put(disk, realtime_filename(normalized_code[c]),
                          get_real_time_price(normalized_code[c], "tick"))
                 ELSE disk
    /\ realtime' = [realtime EXCEPT ![c].st = "raised"]
    /\ UNCHANGED <<pc, args, normalized_code, lock, result, kline, consumed,
                   realtime_data, GLOBAL_LOCK, STOCK_LOCKS, lockObjs, nz_vars, cal_vars, aux_vars>>

\* ------------------------------------------------------------------------
\* Join, preview and return
\* ------------------------------------------------------------------------
TaskState(c, t) == IF t = "kline" THEN kline[c].st ELSE realtime[c].st

\* for fut in as_completed(tasks): value = fut.result() ...
\* a future that raised re-raises here and the loop is left
Consume(c, t) ==
    /\ pc[c] = "join"
    /\ t \in Submitted(c) \ consumed[c]
    /\ TaskState(c, t) \in {"returned", "raised"}
    /\ IF TaskState(c, t) = "raised"
       THEN /\ pc' = [pc EXCEPT ![c] = "unwind"]
            /\ UNCHANGED <<consumed, realtime_data>>
       ELSE /\ consumed' = [consumed EXCEPT ![c] = @ \cup {t}]
            /\ realtime_data' =
                 [realtime_data EXCEPT ![c] =
                    IF t = "realtime" /\ realtime[c].value # Nothing
                    THEN realtime[c].value ELSE @]
            /\ pc' = pc
    /\ UNCHANGED <<args, normalized_code, lock, result, kline, realtime,
                   GLOBAL_LOCK, STOCK_LOCKS, lockObjs, disk, nz_vars, cal_vars, aux_vars>>

\* DataFrame.tail(limit)
TailRows(rows, limit) ==
    IF limit >= Len(rows) THEN rows
    ELSE IF limit >= 0 THEN SubSeq(rows, Len(rows) - limit + 1, Len(rows))
    ELSE SubSeq(rows, 1 - limit, Len(rows))

\* _load_preview_rows
load_preview_rows(d, fname, limit) ==
    IF fname \notin DOMAIN d THEN <<>> ELSE TailRows(d[fname], limit)

\* leaving `with lock`
ReleaseLock(objs, l) == [objs EXCEPT ![l] = Unlocked]

\* a plausible slip: the preview read only for the periods this call saved
SuccessResult_saved_periods(c) ==
    [result[c] EXCEPT
       !.realtime_file = IF args[c].include_realtime
                         THEN Some(realtime_filename(normalized_code[c])) ELSE Nothing,
       !.realtime_data = IF args[c].include_realtime
                         THEN realtime_data[c] ELSE Nothing,
       !.kline_preview = [p \in DOMAIN result[c].kline_files |->
                            IF p \in DOMAIN kline[c].results
                            THEN load_preview_rows(disk, result[c].kline_files[p],
                                                   args[c].preview_limit)
                            ELSE <<>>],
       !.success = TRUE,
       !.message = "complete"]

\* the result dict of a call that completed
SuccessResult(c) ==
    [result[c] EXCEPT
       !.realtime_file = IF args[c].include_realtime
                         THEN Some(realtime_filename(normalized_code[c])) ELSE Nothing,
       !.realtime_data = IF args[c].include_realtime
                         THEN realtime_data[c] ELSE Nothing,
       !.kline_preview = [p \in DOMAIN result[c].kline_files |->
                            load_preview_rows(disk, result[c].kline_files[p],
                                              args[c].preview_limit)],
       !.success = TRUE,
       !.message = "complete"]

\* a plausible slip: lock.acquire() without a release on the normal return
Finish_keeps_lock(c) ==
    /\ pc[c] = "join"
    /\ consumed[c] = Submitted(c)
    /\ result' = [result EXCEPT ![c] = SuccessResult(c)]
    /\ pc' = [pc EXCEPT ![c] = "done"]
    /\ UNCHANGED <<args, normalized_code, lock, kline, realtime, consumed,
                   realtime_data, GLOBAL_LOCK, STOCK_LOCKS, lockObjs, disk, nz_vars, cal_vars, aux_vars>>

\* every future consumed: fill the real-time fields, leave the executor, read
\* the previews, mark success, return (which leaves `with lock`)
Finish(c) ==
    /\ pc[c] = "join"
    /\ consumed[c] = Submitted(c)
    /\ result' = [result EXCEPT ![c] = SuccessResult(c)]
    /\ lockObjs' = ReleaseLock(lockObjs, lock[c])
    /\ pc' = [pc EXCEPT ![c] = "done"]
    /\ UNCHANGED <<args, normalized_code, lock, kline, realtime, consumed,
                   realtime_data, GLOBAL_LOCK, STOCK_LOCKS, disk, nz_vars, cal_vars, aux_vars>>

\* a plausible slip: lock.acquire() without a release in the except branch
Except_keeps_lock(c) ==
    /\ pc[c] = "unwind"
    /\ \A t \in Submitted(c) : TaskState(c, t) # "running"
    /\ result' = [result EXCEPT ![c] =
         [@ EXCEPT !.success = FALSE, !.message = "failed"]]
    /\ pc' = [pc EXCEPT ![c] = "done"]
    /\ UNCHANGED <<args, normalized_code, lock, kline, realtime, consumed,
                   realtime_data, GLOBAL_LOCK, STOCK_LOCKS, lockObjs, disk, nz_vars, cal_vars, aux_vars>>

\* a plausible slip: executor.shutdown(wait=False), the except branch runs
\* while a sub-task is still at work
Except_without_join(c) ==
    /\ pc[c] = "unwind"
    /\ result' = [result EXCEPT ![c] =
         [@ EXCEPT !.success = FALSE, !.message = "failed"]]
    /\ lockObjs' = ReleaseLock(lockObjs, lock[c])
    /\ pc' = [pc EXCEPT ![c] = "done"]
    /\ UNCHANGED <<args, normalized_code, lock, kline, realtime, consumed,
                   realtime_data, GLOBAL_LOCK, STOCK_LOCKS, disk, nz_vars, cal_vars, aux_vars>>

\* an exception left the as_completed loop: the executor's exit waits for the
\* futures still running, then `except Exception` marks the failure and the
\* function returns (which leaves `with lock`)
Except(c) ==
    /\ pc[c] = "unwind"
    /\ \A t \in Submitted(c) : TaskState(c, t) # "running"
    /\ result' = [result EXCEPT ![c] =
         [@ EXCEPT !.success = FALSE, !.message = "failed"]]
    /\ lockObjs' = ReleaseLock(lockObjs, lock[c])
    /\ pc' = [pc EXCEPT ![c] = "done"]
    /\ UNCHANGED <<args, normalized_code, lock, kline, realtime, consumed,
                   realtime_data, GLOBAL_LOCK, STOCK_LOCKS, disk, nz_vars, cal_vars, aux_vars>>

Next ==
    \E c \in Callers :
        \/ Call(c)
        \/ GetLockEnter(c)
        \/ GetLockReturn(c)
        \/ LockAcquire(c)
        \/ CollectStep(c)
        \/ CollectRaise(c)
        \/ RealtimeRun(c)
        \/ RealtimeRaise(c)
        \/ Consume(c, "kline")
        \/ Consume(c, "realtime")
        \/ Finish(c)
        \/ Except(c)

Spec == Init /\ [][Next]_vars

\* every step a call or one of its sub-tasks can take once the call is made
Proceed(c) ==
    \/ GetLockEnter(c)
    \/ GetLockReturn(c)
    \/ LockAcquire(c)
    \/ CollectStep(c)
    \/ CollectRaise(c)
    \/ RealtimeRun(c)
    \/ RealtimeRaise(c)
    \/ Consume(c, "kline")
    \/ Consume(c, "realtime")
    \/ Finish(c)
    \/ Except(c)

\* the requests for 600689.SH, in its two spellings
SameSymbolRequests ==
    {a \in Requests : normalize_stock_code(a.stock_code) = Ok(Code_600689_SH)}

\* entry with a request for 600689.SH
CallSameSymbol(c) == CallFrom(c, SameSymbolRequests)

\* every call is for the one symbol
NextContended == \E c \in Callers : CallSameSymbol(c) \/ Proceed(c)

\* concurrent calls for one symbol; threads are scheduled and every provider
\* call returns or raises: a call that can take a step eventually takes one
FairContendedSpec ==
    Init /\ [][NextContended]_vars /\ \A c \in Callers : WF_vars(Proceed(c))

\* ------------------------------------------------------------------------
\* normalize_stock_code on its own
\* ------------------------------------------------------------------------
SixDigitCodes == {<<"6", "0", "0", "6", "8", "9">>, <<"0", "0", "0", "0", "0", "1">>}

\* every spelling of an exchange, by its canonical upper-case form
ExchangeSpellings ==
    [SH |-> {<<"S", "H">>, <<"s", "h">>, <<"S", "h">>, <<"s", "H">>},
     SZ |-> {<<"S", "Z">>, <<"s", "z">>, <<"S", "z">>, <<"s", "Z">>}]
Canonical(code, e) ==
    code \o <<".">> \o (IF e = "SH" THEN <<"S", "H">> ELSE <<"S", "Z">>)

\* nothing or one of . _ - between the code and the exchange
OptionalSeparators == {<<>>, <<".">>, <<"_">>, <<"-">>}
LeftPads == {<<>>, <<" ">>}
RightPads == {<<>>, <<" ">>, <<"\n">>}

\* code then exchange: 600689.SH 600689SH 600689_sh 600689-SH
CodeFirstForms(code, e) ==
    {code \o sep \o x : sep \in OptionalSeparators, x \in ExchangeSpellings[e]}
\* exchange then code: SH600689 (and sh.600689, which the pattern also takes)
ExchangeFirstForms(code, e) ==
    {x \o sep \o code : sep \in OptionalSeparators, x \in ExchangeSpellings[e]}
AcceptedForms(code, e) == CodeFirstForms(code, e) \cup ExchangeFirstForms(code, e)

\* texts no pattern takes: an unknown exchange, five digits, two separators,
\* a blank inside, nothing but blanks
RejectedForms ==
    {<<"6", "0", "0", "6", "8", "9", ".", "B", "J">>,
     <<"6", "0", "0", "6", "8", ".", "S", "H">>,
     <<"6", "0", "0", "6", "8", "9", ".", ".", "S", "H">>,
     <<"6", "0", "0", "6", "8", "9", " ", "S", "H">>,
     <<"S", "H">>,
     <<" ">>}

Padded(forms) == {l \o f \o r : l \in LeftPads, f \in forms, r \in RightPads}

NormInputs ==
    Padded(UNION {AcceptedForms(code, e) : code \in SixDigitCodes, e \in {"SH", "SZ"}})
    \cup Padded(SixDigitCodes)
    \cup Padded(RejectedForms)
    \cup {<<>>}

InitNorm ==
    /\ InitOrch
    /\ nz_in \in NormInputs
    /\ nz_out = NotApplied
    /\ CalendarIdle
    /\ AuxIdle

\* nz_out = normalize_stock_code(nz_in)
ApplyNormalize ==
    /\ nz_out = NotApplied
    /\ nz_out' = normalize_stock_code(nz_in)
    /\ UNCHANGED <<nz_in, orch_vars, cal_vars, aux_vars>>

NextNorm == ApplyNormalize

SpecNorm == InitNorm /\ [][NextNorm]_vars

\* ------------------------------------------------------------------------
\* Dates and times (datetime), within the year 2025
\* ------------------------------------------------------------------------
DigitChars == <<"0", "1", "2", "3", "4", "5", "6", "7", "8", "9">>
S_2025 == <<"2", "0", "2", "5">>
MonthLengths == <<31, 28, 31, 30, 31, 30, 31, 31, 30, 31, 30, 31>>

\* a date is its day of the year; month and day of the month of a date
RECURSIVE MonthDay(_, _)
MonthDay(d, m) ==
    IF d <= MonthLengths[m] THEN <<m, d>> ELSE MonthDay(d - MonthLengths[m], m + 1)

\* "%02d"
TwoDigits(n) == <<DigitChars[(n \div 10) + 1], DigitChars[(n % 10) + 1]>>

\* date.strftime('%Y-%m-%d')
strftime(d) ==
    LET md == MonthDay(d, 1)
    IN S_2025 \o <<"-">> \o TwoDigits(md[1]) \o <<"-">> \o TwoDigits(md[2])

\* date.weekday(): Monday is 0; 1 January 2025 is a Wednesday
weekday(d) == (d + 1) % 7

\* the days of 2025
DaysOfYear == 1..365

\* a text that is the '%Y-%m-%d' form of a calendar date
IsCalendarDate(s) == \E d \in DaysOfYear : strftime(d) = s

\* ord(ch) for the characters of a date text
Ord(ch) ==
    IF ch = "-" THEN 45
    ELSE 47 + (CHOOSE k \in DOMAIN DigitChars : DigitChars[k] = ch)

\* str < str
RECURSIVE StrLess(_, _)
StrLess(a, b) ==
    IF b = <<>> THEN FALSE
    ELSE IF a = <<>> THEN TRUE
    ELSE IF Head(a) = Head(b) THEN StrLess(Tail(a), Tail(b))
    ELSE Ord(Head(a)) < Ord(Head(b))

\* sorted(list of str): every element kept, ascending
RECURSIVE InsertSorted(_, _)
InsertSorted(s, x) ==
    IF s = <<>> THEN <<x>>
    ELSE IF StrLess(x, Head(s)) THEN <<x>> \o s
    ELSE <<Head(s)>> \o InsertSorted(Tail(s), x)
RECURSIVE sorted(_)
sorted(s) ==
    IF s = <<>> THEN <<>> ELSE InsertSorted(sorted(SubSeq(s, 1, Len(s) - 1)), s[Len(s)])

\* a time of day, in minutes since midnight
HM(h, m) == h * 60 + m
HourOf(minute) == minute \div 60

\* ------------------------------------------------------------------------
\* The trading calendar: get_trading_dates_from_xtdata and its fallback
\* ------------------------------------------------------------------------
\* the two copies of the calendar functions that the collectors use, and
\* the third copy, of check_trading_time
Modules == {"AllKLineData", "RealTimePrice"}
AllModules == Modules \cup {"check_trading_time"}

\* the copy prints a warning at the first failure of the provider; the copy
\* of check_trading_time falls back without printing
WarnsOnFailure(module) == module # "check_trading_time"

\* f"{date_str[:4]}-{date_str[4:6]}-{date_str[6:8]}"
FormatCompact(s) ==
    SubSeq(s, 1, 4) \o <<"-">> \o SubSeq(s, 5, 6) \o <<"-">> \o SubSeq(s, 7, 8)

\* the loop over the provider's entries: an entry of eight characters is
\* reformatted, any other text is dropped
RECURSIVE FormattedDates(_)
FormattedDates(entries) ==
    IF entries = <<>> THEN <<>>
    ELSE IF Len(Head(entries).text) = 8
         THEN <<FormatCompact(Head(entries).text)>> \o FormattedDates(Tail(entries))
         ELSE FormattedDates(Tail(entries))

\* the dates the loops of get_fallback_trading_dates look at, in loop order
RECURSIVE DaysBack(_, _, _)
DaysBack(day, i, n) ==
    IF i >= n THEN <<>> ELSE <<day - i>> \o DaysBack(day, i + 1, n)
RECURSIVE DaysAhead(_, _, _)
DaysAhead(day, i, n) ==
    IF i >= n THEN <<>> ELSE <<day + i>> \o DaysAhead(day, i + 1, n)
FallbackDays(module, days_back, day) ==
    IF module = "RealTimePrice"
    THEN DaysBack(day, 0, days_back) \o DaysAhead(day, 1, 11)
    ELSE DaysBack(day, 0, days_back + 5)

\* if check_date.weekday() < 5: trading_dates.append(strftime)
RECURSIVE WeekdayTexts(_)
WeekdayTexts(days) ==
    IF days = <<>> THEN <<>>
    ELSE IF weekday(Head(days)) < 5
         THEN <<strftime(Head(days))>> \o WeekdayTexts(Tail(days))
         ELSE WeekdayTexts(Tail(days))

\* get_fallback_trading_dates
get_fallback_trading_dates(module, days_back, day) ==
    sorted(WeekdayTexts(FallbackDays(module, days_back, day)))

\* ------------------------------------------------------------------------
\* The calendar provider (xtdata.download_holiday_data, get_trading_dates)
\* ------------------------------------------------------------------------
\* an entry of the provider's answer: a text, or a number (a timestamp), of
\* which len() raises TypeError
TextEntry(text) == [type |-> "str", text |-> text]
NumberEntry == [type |-> "int", text |-> <<>>]
E_20250725 == <<"2", "0", "2", "5", "0", "7", "2", "5">>
E_20250728 == <<"2", "0", "2", "5", "0", "7", "2", "8">>
E_20250040 == <<"2", "0", "2", "5", "0", "0", "4", "0">>
E_2025072 == <<"2", "0", "2", "5", "0", "7", "2">>
\* the texts of an answer: two dates, a date that does not exist, a text
\* one character short
ProviderTexts ==
    {TextEntry(E_20250725), TextEntry(E_20250728),
     TextEntry(E_20250040), TextEntry(E_2025072)}

\* what the provider can do for one calendar request: the holiday refresh
\* raises, the query raises, or the query answers a list (possibly empty,
\* with repeated, unordered or malformed entries, or with numbers)
CalendarResponses ==
    {[kind |-> "holiday_raises", entries |-> <<>>],
     [kind |-> "dates_raises", entries |-> <<>>],
     [kind |-> "list", entries |-> <<NumberEntry>>],
     [kind |-> "list", entries |-> <<TextEntry(E_20250725), NumberEntry>>]}
    \cup {[kind |-> "list", entries |-> e] :
            e \in UNION {[1..k -> ProviderTexts] : k \in 0..MaxEntries}}

\* the answer sends the function to its fallback: an exception (of the
\* provider, or TypeError at a number), or an empty list
UsesFallback(resp) ==
    \/ resp.kind # "list"
    \/ resp.entries = <<>>
    \/ \E i \in DOMAIN resp.entries : resp.entries[i].type = "int"

\* the days and times of day the clock shows: Friday 25, Saturday 26 and
\* Monday 28 July 2025, around the limits of the trading hours
ClockDays == {206, 207, 209}
ClockMinutes ==
    {HM(8, 59), HM(9, 0), HM(9, 14), HM(9, 15), HM(11, 30), HM(11, 31),
     HM(13, 0), HM(15, 0), HM(15, 1)}
Instants == [day : ClockDays, minute : ClockMinutes]
Later(a, b) == b.day > a.day \/ (b.day = a.day /\ b.minute > a.minute)

\* days_back of get_trading_dates_from_xtdata: its default, and another
DefaultDaysBack == 30
WindowDays == {3, DefaultDaysBack}

\* a plausible slip: the cache is written but never looked up
get_trading_dates_cache_unread(module, days_back, day, cache, warned, calls, resp) ==
    LET fallback == UsesFallback(resp)
        dates == IF fallback
                 THEN get_fallback_trading_dates(module, days_back, day)
                 ELSE sorted(FormattedDates(resp.entries))
    IN [result |-> dates,
        cache |-> Put(cache, days_back, dates),
        warned |-> (warned \/ (fallback /\ WarnsOnFailure(module))),
        calls |-> [holiday |-> calls.holiday + 1,
                   dates |-> IF resp.kind = "holiday_raises"
                             THEN calls.dates ELSE calls.dates + 1],
        source |-> IF fallback THEN "fallback" ELSE "provider",
        printed |-> IF fallback /\ WarnsOnFailure(module) /\ ~warned
                    THEN 1 ELSE 0]

\* a plausible slip: the fallback's answer is returned without being cached
get_trading_dates_fallback_uncached(module, days_back, day, cache, warned, calls, resp) ==
    IF days_back \in DOMAIN cache
    THEN [result |-> cache[days_back], cache |-> cache, warned |-> warned,
          calls |-> calls, source |-> "cache", printed |-> 0]
    ELSE LET fallback == UsesFallback(resp)
             dates == IF fallback
                      THEN get_fallback_trading_dates(module, days_back, day)
                      ELSE sorted(FormattedDates(resp.entries))
         IN [result |-> dates,
             cache |-> IF fallback THEN cache ELSE Put(cache, days_back, dates),
             warned |-> (warned \/ (fallback /\ WarnsOnFailure(module))),
             calls |-> [holiday |-> calls.holiday + 1,
                        dates |-> IF resp.kind = "holiday_raises"
                                  THEN calls.dates ELSE calls.dates + 1],
             source |-> IF fallback THEN "fallback" ELSE "provider",
             printed |-> IF fallback /\ WarnsOnFailure(module) /\ ~warned
                         THEN 1 ELSE 0]

\* get_trading_dates_from_xtdata: what it returns and what it leaves in
\* _trading_dates_cache and _api_warning_shown, and the provider calls made
get_trading_dates_from_xtdata(module, days_back, day, cache, warned, calls, resp) ==
    IF days_back \in DOMAIN cache
    THEN [result |-> cache[days_back], cache |-> cache, warned |-> warned,
          calls |-> calls, source |-> "cache", printed |-> 0]
    ELSE LET fallback == UsesFallback(resp)
             dates == IF fallback
                      THEN get_fallback_trading_dates(module, days_back, day)
                      ELSE sorted(FormattedDates(resp.entries))
         IN [result |-> dates,
             cache |-> Put(cache, days_back, dates),
             warned |-> (warned \/ (fallback /\ WarnsOnFailure(module))),
             calls |-> [holiday |-> calls.holiday + 1,
                        dates |-> IF resp.kind = "holiday_raises"
                                  THEN calls.dates ELSE calls.dates + 1],
             source |-> IF fallback THEN "fallback" ELSE "provider",
             printed |-> IF fallback /\ WarnsOnFailure(module) /\ ~warned
                         THEN 1 ELSE 0]

\* ------------------------------------------------------------------------
\* Relative dates: get_latest_trading_date, get_previous_trading_date
\* ------------------------------------------------------------------------
\* a plausible slip: the morning session taken to open at 08:00
is_trading_time_from_8(now) ==
    /\ weekday(now.day) < 5
    /\ \/ HM(8, 0) <= now.minute /\ now.minute <= HM(11, 30)
       \/ HM(13, 0) <= now.minute /\ now.minute <= HM(15, 0)

\* is_trading_time
is_trading_time(now) ==
    /\ weekday(now.day) < 5
    /\ \/ HM(9, 15) <= now.minute /\ now.minute <= HM(11, 30)
       \/ HM(13, 0) <= now.minute /\ now.minute <= HM(15, 0)

\* list.index
IndexOf(list, x) == CHOOSE i \in DOMAIN list : list[i] = x /\ \A j \in 1..(i - 1) : list[j] # x

\* a plausible slip: the list is scanned from its start
FirstBefore(trading_dates, current) ==
    LET hits == {i \in DOMAIN trading_dates : StrLess(trading_dates[i], current)}
    IN IF hits = {} THEN Nothing
       ELSE Some(trading_dates[CHOOSE i \in hits : \A j \in hits : i <= j])

\* for date_str in reversed(trading_dates): if date_str < current: return it
LastBefore(trading_dates, current) ==
    LET hits == {i \in DOMAIN trading_dates : StrLess(trading_dates[i], current)}
    IN IF hits = {} THEN Nothing
       ELSE Some(trading_dates[CHOOSE i \in hits : \A j \in hits : i >= j])

\* a plausible slip: `current_hour <= 9`
get_latest_trading_date_hour_le_9(trading_dates, now) ==
    LET current_date_str == strftime(now.day) IN
    IF trading_dates = <<>> THEN current_date_str
    ELSE IF current_date_str \in Range(trading_dates)
    THEN IF is_trading_time(now) THEN current_date_str
         ELSE IF HourOf(now.minute) <= 9
         THEN LET current_index == IndexOf(trading_dates, current_date_str)
              IN IF current_index > 1 THEN trading_dates[current_index - 1]
                 ELSE current_date_str
         ELSE current_date_str
    ELSE LET before == LastBefore(trading_dates, current_date_str)
         IN IF before # Nothing THEN before[1]
            ELSE trading_dates[Len(trading_dates)]

\* get_latest_trading_date, given the list get_trading_dates_from_xtdata()
\* returned and the clock
get_latest_trading_date(trading_dates, now) ==
    LET current_date_str == strftime(now.day) IN
    IF trading_dates = <<>> THEN current_date_str
    ELSE IF current_date_str \in Range(trading_dates)
    THEN IF is_trading_time(now) THEN current_date_str
         ELSE IF HourOf(now.minute) < 9
         THEN LET current_index == IndexOf(trading_dates, current_date_str)
              IN IF current_index > 1 THEN trading_dates[current_index - 1]
                 ELSE current_date_str
         ELSE current_date_str
    ELSE LET before == LastBefore(trading_dates, current_date_str)
         IN IF before # Nothing THEN before[1]
            ELSE trading_dates[Len(trading_dates)]

\* get_previous_trading_date, given the list, what get_latest_trading_date()
\* returned and the clock
get_previous_trading_date(trading_dates, latest_trading_date, now) ==
    IF Len(trading_dates) < 2 THEN strftime(now.day - 1)
    ELSE IF latest_trading_date \in Range(trading_dates)
    THEN LET current_index == IndexOf(trading_dates, latest_trading_date)
         IN IF current_index > 1 THEN trading_dates[current_index - 1]
            ELSE trading_dates[1]
    ELSE trading_dates[Len(trading_dates) - 1]

\* ------------------------------------------------------------------------
\* The calendar functions called in one process
\* ------------------------------------------------------------------------
\* a process that imports one of the two modules, started at some instant
InitCal ==
    /\ InitOrch
    /\ nz_in = <<>>
    /\ nz_out = NotApplied
    /\ cal_module \in Modules
    /\ cal_now \in Instants
    /\ InitCalendar
    /\ AuxIdle

\* the answers the provider may give to a call: it is asked only on a miss
AnswersFor(days_back, cache) ==
    IF days_back \in DOMAIN cache
    THEN {[kind |-> "list", entries |-> <<>>]}
    ELSE CalendarResponses

\* get_trading_dates_from_xtdata(days_back)
CallGetTradingDates(days_back) ==
    /\ \E resp \in AnswersFor(days_back, trading_dates_cache) :
       \E r \in {get_trading_dates_from_xtdata(cal_module, days_back, cal_now.day,
                      trading_dates_cache, api_warning_shown, provider_calls, resp)} :
            /\ trading_dates_cache' = r.cache
            /\ api_warning_shown' = r.warned
            /\ provider_calls' = r.calls
            /\ warnings' = warnings + r.printed
            /\ cal_returned' = Put(cal_returned, days_back, r.result)
            /\ cal_last' = [op |-> "get_trading_dates", days_back |-> days_back,
                            dates |-> r.result, date |-> <<>>, latest |-> <<>>,
                            source |-> r.source]
    /\ UNCHANGED <<cal_module, cal_now, orch_vars, nz_vars, aux_vars>>

\* get_latest_trading_date()
CallGetLatestTradingDate ==
    /\ cal_module = "AllKLineData"
    /\ \E resp \in AnswersFor(DefaultDaysBack, trading_dates_cache) :
       \E r \in {get_trading_dates_from_xtdata(cal_module, DefaultDaysBack, cal_now.day,
                      trading_dates_cache, api_warning_shown, provider_calls, resp)} :
       \E latest \in {get_latest_trading_date(r.result, cal_now)} :
            /\ trading_dates_cache' = r.cache
            /\ api_warning_shown' = r.warned
            /\ provider_calls' = r.calls
            /\ warnings' = warnings + r.printed
            /\ cal_returned' = Put(cal_returned, DefaultDaysBack, r.result)
            /\ cal_last' = [op |-> "get_latest_trading_date",
                            days_back |-> DefaultDaysBack,
                            dates |-> r.result, date |-> latest, latest |-> latest,
                            source |-> r.source]
    /\ UNCHANGED <<cal_module, cal_now, orch_vars, nz_vars, aux_vars>>

\* get_previous_trading_date(): it reads the list, then, with two entries or
\* more, calls get_latest_trading_date, which reads the list again
CallGetPreviousTradingDate ==
    /\ cal_module = "AllKLineData"
    /\ \E resp \in AnswersFor(DefaultDaysBack, trading_dates_cache) :
       \E r \in {get_trading_dates_from_xtdata(cal_module, DefaultDaysBack, cal_now.day,
                      trading_dates_cache, api_warning_shown, provider_calls, resp)} :
       \E again \in AnswersFor(DefaultDaysBack, r.cache) :
       \E r2 \in {IF Len(r.result) < 2 THEN r
                   ELSE get_trading_dates_from_xtdata(cal_module, DefaultDaysBack,
                            cal_now.day, r.cache, r.warned, r.calls, again)} :
       \E latest \in {IF Len(r.result) < 2 THEN <<>>
                       ELSE get_latest_trading_date(r2.result, cal_now)} :
            /\ trading_dates_cache' = r2.cache
            /\ api_warning_shown' = r2.warned
            /\ provider_calls' = r2.calls
            /\ warnings' = warnings + r.printed
                              + (IF Len(r.result) < 2 THEN 0 ELSE r2.printed)
            /\ cal_returned' = Put(cal_returned, DefaultDaysBack, r2.result)
            /\ cal_last' = [op |-> "get_previous_trading_date",
                            days_back |-> DefaultDaysBack,
                            dates |-> r.result,
                            date |-> get_previous_trading_date(r.result, latest, cal_now),
                            latest |-> latest,
                            source |-> r.source]
    /\ UNCHANGED <<cal_module, cal_now, orch_vars, nz_vars, aux_vars>>

\* the instant that follows on the clock
NextInstant(now) ==
    CHOOSE n \in Instants :
        Later(now, n) /\ \A m \in Instants : Later(now, m) => (m = n \/ Later(n, m))

\* time passes; the answer of the last call has been used by then
ClockAdvance ==
    /\ \E later \in Instants : Later(cal_now, later)
    /\ cal_now' = NextInstant(cal_now)
    /\ cal_last' = NoAnswer
    /\ UNCHANGED <<cal_module, trading_dates_cache, api_warning_shown, provider_calls,
                   cal_returned, warnings, orch_vars, nz_vars, aux_vars>>

NextCal ==
    \/ \E days_back \in WindowDays : CallGetTradingDates(days_back)
    \/ CallGetLatestTradingDate
    \/ CallGetPreviousTradingDate
    \/ ClockAdvance

SpecCal == InitCal /\ [][NextCal]_vars

\* ------------------------------------------------------------------------
\* get_trading_dates_from_xtdata called from several threads of one process
\* ------------------------------------------------------------------------
\* calls a thread makes
MaxCalls == 2

\* the provider's answers to these calls: either exception, an empty list,
\* a list of two dates
ThreadResponses ==
    {[kind |-> "holiday_raises", entries |-> <<>>],
     [kind |-> "dates_raises", entries |-> <<>>],
     [kind |-> "list", entries |-> <<>>],
     [kind |-> "list", entries |-> <<TextEntry(E_20250725), TextEntry(E_20250728)>>]}

\* a process that imports one of the three modules, on Friday 25 July 2025
InitThreads ==
    /\ InitOrch
    /\ nz_in = <<>>
    /\ nz_out = NotApplied
    /\ cal_module \in AllModules
    /\ cal_now = [day |-> 206, minute |-> HM(9, 0)]
    /\ InitCalendar
    /\ AuxIdle

\* the call starts: `if cache_key in _trading_dates_cache: return ...`
ThreadCall(t, days_back) ==
    /\ th[t].pc = "idle"
    /\ th[t].calls < MaxCalls
    /\ IF days_back \in DOMAIN trading_dates_cache
       THEN th' = [th EXCEPT ![t] = [pc |-> "idle", days_back |-> days_back,
                                     failed |-> FALSE,
                                     result |-> trading_dates_cache[days_back],
                                     calls |-> @.calls + 1]]
       ELSE th' = [th EXCEPT ![t] = [pc |-> "try", days_back |-> days_back,
                                     failed |-> FALSE, result |-> <<>>,
                                     calls |-> @.calls]]
    /\ UNCHANGED <<cal_vars, orch_vars, nz_vars, kq_req, kq_out, fn_req, fn_out>>

\* the try block: the holiday refresh, the query, the loop over the entries
ThreadAskProvider(t) ==
    /\ th[t].pc = "try"
    /\ \E resp \in ThreadResponses :
          /\ provider_calls' =
                [holiday |-> provider_calls.holiday + 1,
                 dates |-> IF resp.kind = "holiday_raises"
                           THEN provider_calls.dates ELSE provider_calls.dates + 1]
          /\ th' = [th EXCEPT ![t] =
                      IF UsesFallback(resp)
                      THEN [@ EXCEPT !.pc = "failed", !.failed = TRUE]
                      ELSE [@ EXCEPT !.pc = "store",
                                     !.result = sorted(FormattedDates(resp.entries))]]
    /\ UNCHANGED <<cal_module, cal_now, trading_dates_cache, api_warning_shown,
                   cal_returned, cal_last, warnings, orch_vars, nz_vars,
                   kq_req, kq_out, fn_req, fn_out>>

\* `if not _api_warning_shown:` in the else and the except branch; the copy
\* of check_trading_time has no such statement
ThreadCheckFlag(t) ==
    /\ th[t].pc = "failed"
    /\ th' = [th EXCEPT ![t].pc =
                IF WarnsOnFailure(cal_module) /\ ~api_warning_shown
                THEN "print" ELSE "store"]
    /\ UNCHANGED <<cal_vars, orch_vars, nz_vars, kq_req, kq_out, fn_req, fn_out>>

\* print(...); _api_warning_shown = True
ThreadPrint(t) ==
    /\ th[t].pc = "print"
    /\ warnings' = warnings + 1
    /\ api_warning_shown' = TRUE
    /\ th' = [th EXCEPT ![t].pc = "store"]
    /\ UNCHANGED <<cal_module, cal_now, trading_dates_cache, provider_calls,
                   cal_returned, cal_last, orch_vars, nz_vars,
                   kq_req, kq_out, fn_req, fn_out>>

\* result = ... ; _trading_dates_cache[cache_key] = result; return result
ThreadStore(t) ==
    /\ th[t].pc = "store"
    /\ \E dates \in {IF th[t].failed
                      THEN get_fallback_trading_dates(cal_module, th[t].days_back,
                                                      cal_now.day)
                      ELSE th[t].result} :
          /\ trading_dates_cache' = Put(trading_dates_cache, th[t].days_back, dates)
          /\ th' = [th EXCEPT ![t] = [@ EXCEPT !.pc = "idle", !.result = dates,
                                                !.calls = @ + 1]]
    /\ UNCHANGED <<cal_module, cal_now, api_warning_shown, provider_calls,
                   cal_returned, cal_last, warnings, orch_vars, nz_vars,
                   kq_req, kq_out, fn_req, fn_out>>

NextThreads ==
    \E t \in Callers :
        \/ \E days_back \in WindowDays : ThreadCall(t, days_back)
        \/ ThreadAskProvider(t)
        \/ ThreadCheckFlag(t)
        \/ ThreadPrint(t)
        \/ ThreadStore(t)

SpecThreads == InitThreads /\ [][NextThreads]_vars

\* ------------------------------------------------------------------------
\* KLineDataCollector.get_kline_data called with dates
\* ------------------------------------------------------------------------
P_5m == <<"5", "m">>
P_15m == <<"1", "5", "m">>
P_30m == <<"3", "0", "m">>
P_60m == <<"6", "0", "m">>
P_1w == <<"1", "w">>
P_2h == <<"2", "h">>
\* the keys of periods_config
ConfiguredPeriods == {P_1m, P_5m, P_15m, P_30m, P_60m, P_1d, P_1w, P_1M}

\* periods_config.get(period, {"name": period, "count": -1})["count"]
periods_config(period) ==
    CASE period = P_1m -> 500
      [] period = P_5m -> 500
      [] period = P_15m -> 300
      [] period = P_30m -> 200
      [] period = P_60m -> 100
      [] OTHER -> -1

\* str.lower, one character
LowerChar(ch) ==
    CASE ch = "T" -> "t"
      [] ch = "O" -> "o"
      [] ch = "D" -> "d"
      [] ch = "A" -> "a"
      [] ch = "Y" -> "y"
      [] ch = "E" -> "e"
      [] ch = "S" -> "s"
      [] ch = "R" -> "r"
      [] ch = "M" -> "m"
      [] ch = "H" -> "h"
      [] ch = "Z" -> "z"
      [] ch = "B" -> "b"
      [] ch = "J" -> "j"
      [] ch = "W" -> "w"
      [] OTHER -> ch

\* str.lower
Lower(s) == [i \in 1..Len(s) |-> LowerChar(s[i])]

S_today == <<"t", "o", "d", "a", "y">>
S_yesterday == <<"y", "e", "s", "t", "e", "r", "d", "a", "y">>
SpecialDates == {S_today, S_yesterday}

\* parse_date_param, given what get_latest_trading_date() and
\* get_previous_trading_date() return: (actual date, original argument), or
\* ValueError
parse_date_param(date_str, latest, previous) ==
    IF date_str = Nothing
    THEN [ok |-> TRUE, actual |-> Nothing, original |-> Nothing]
    ELSE LET text == Strip(Lower(date_str[1])) IN
         IF text = S_today
         THEN [ok |-> TRUE, actual |-> Some(latest), original |-> Some(S_today)]
         ELSE IF text = S_yesterday
         THEN [ok |-> TRUE, actual |-> Some(previous), original |-> Some(S_yesterday)]
         ELSE IF IsCalendarDate(text)
         THEN [ok |-> TRUE, actual |-> Some(text), original |-> Some(text)]
         ELSE [ok |-> FALSE, actual |-> Nothing, original |-> Nothing]

\* original in ['today', 'yesterday']
IsSpecial(original) == original # Nothing /\ original[1] \in SpecialDates

\* no request sent to get_market_data_ex
NoQuery == [kind |-> "none", count |-> 0, start_time |-> <<>>, end_time |-> <<>>]

\* a plausible slip: `count` passed as it is, -1 for the daily and longer
\* periods, under the special dates
special_count_as_configured(count) == count
\* count if count > 0 else 1000
special_count(count) == IF count > 0 THEN count ELSE 1000

\* a plausible slip: `elif is_custom_range:` with one bound only
market_data_request_one_bound(period, actual_start_date, actual_end_date, use_special) ==
    LET count == periods_config(period)
        is_custom_range ==
            (actual_start_date # Nothing \/ actual_end_date # Nothing) /\ ~use_special
    IN IF use_special
       THEN [kind |-> "count", count |-> special_count(count),
             start_time |-> <<>>, end_time |-> <<>>]
       ELSE IF is_custom_range
       THEN [kind |-> "range", count |-> -1,
             start_time |-> IF actual_start_date = Nothing THEN <<>>
                            ELSE actual_start_date[1],
             end_time |-> IF actual_end_date = Nothing THEN <<>>
                          ELSE actual_end_date[1]]
       ELSE [kind |-> "count", count |-> count,
             start_time |-> <<>>, end_time |-> <<>>]

\* the arguments of get_market_data_ex: the three branches of get_kline_data
market_data_request(period, actual_start_date, actual_end_date, use_special) ==
    LET count == periods_config(period)
        is_custom_range ==
            (actual_start_date # Nothing \/ actual_end_date # Nothing) /\ ~use_special
    IN IF use_special
       THEN [kind |-> "count", count |-> special_count(count),
             start_time |-> <<>>, end_time |-> <<>>]
       ELSE IF is_custom_range /\ actual_start_date # Nothing /\ actual_end_date # Nothing
       THEN [kind |-> "range", count |-> -1,
             start_time |-> actual_start_date[1], end_time |-> actual_end_date[1]]
       ELSE [kind |-> "count", count |-> count,
             start_time |-> <<>>, end_time |-> <<>>]

\* the provider's candles of the symbol, oldest first: none; Friday 25 July
\* only; Thursday 24 and Friday 25; those and Monday 28
Bar(day, k) == [date |-> day, k |-> k]
Histories ==
    {<<>>,
     <<Bar(206, 1), Bar(206, 2)>>,
     <<Bar(205, 1), Bar(206, 1)>>,
     <<Bar(205, 1), Bar(206, 1), Bar(209, 1), Bar(209, 2)>>}

\* what download_history_data and get_market_data_ex can do: the download
\* raises, the query raises, the answer lacks the symbol, the answer holds
\* the symbol's candles
MarketAnswers ==
    {[kind |-> "download_raises", history |-> <<>>],
     [kind |-> "raise", history |-> <<>>],
     [kind |-> "missing", history |-> <<>>]}
    \cup {[kind |-> "rows", history |-> h] : h \in Histories}

\* the rows get_market_data_ex answers to a request, of the candles it has:
\* those of the range, or the last `count`, or all with count = -1
market_data_rows(history, request) ==
    IF request.kind = "range"
    THEN SelectSeq(history,
                   LAMBDA bar : /\ ~StrLess(strftime(bar.date), request.start_time)
                                /\ ~StrLess(request.end_time, strftime(bar.date)))
    ELSE IF request.count < 0 THEN history
    ELSE TailRows(history, request.count)

\* df['datetime'].dt.date.unique()
DatesOf(df) == {df[i].date : i \in DOMAIN df}
MaxDate(dates) == CHOOSE d \in dates : \A e \in dates : e <= d
NoDate == 0

\* a plausible slip: available_dates read from its first entry
filter_by_special_date_from_first(df, original_start, original_end) ==
    LET available_dates == DatesOf(df)
        today_trading_date ==
            IF available_dates = {} THEN NoDate
            ELSE CHOOSE d \in available_dates : \A e \in available_dates : d <= e
        yesterday_trading_date ==
            IF Cardinality(available_dates) >= 2
            THEN MaxDate(available_dates \ {MaxDate(available_dates)}) ELSE NoDate
        actual_start_date ==
            IF original_start = Some(S_today) THEN today_trading_date
            ELSE IF original_start = Some(S_yesterday) THEN yesterday_trading_date
            ELSE NoDate
        actual_end_date ==
            IF original_end = Some(S_today) THEN today_trading_date
            ELSE IF original_end = Some(S_yesterday) THEN yesterday_trading_date
            ELSE NoDate
    IN IF available_dates = {} THEN df
       ELSE IF original_start = Some(S_yesterday) /\ yesterday_trading_date = NoDate
       THEN <<>>
       ELSE SelectSeq(df,
                LAMBDA bar : /\ actual_start_date # NoDate => bar.date >= actual_start_date
                             /\ actual_end_date # NoDate => bar.date <= actual_end_date)

\* _filter_by_special_date
filter_by_special_date(df, original_start, original_end) ==
    LET available_dates == DatesOf(df)
        today_trading_date ==
            IF available_dates = {} THEN NoDate ELSE MaxDate(available_dates)
        yesterday_trading_date ==
            IF Cardinality(available_dates) >= 2
            THEN MaxDate(available_dates \ {today_trading_date}) ELSE NoDate
        actual_start_date ==
            IF original_start = Some(S_today) THEN today_trading_date
            ELSE IF original_start = Some(S_yesterday) THEN yesterday_trading_date
            ELSE NoDate
        actual_end_date ==
            IF original_end = Some(S_today) THEN today_trading_date
            ELSE IF original_end = Some(S_yesterday) THEN yesterday_trading_date
            ELSE NoDate
    IN IF available_dates = {} THEN df
       ELSE IF original_start = Some(S_yesterday) /\ yesterday_trading_date = NoDate
       THEN <<>>
       ELSE SelectSeq(df,
                LAMBDA bar : /\ actual_start_date # NoDate => bar.date >= actual_start_date
                             /\ actual_end_date # NoDate => bar.date <= actual_end_date)

\* strftime('%Y%m%d')
strftime_compact(d) ==
    LET md == MonthDay(d, 1) IN S_2025 \o TwoDigits(md[1]) \o TwoDigits(md[2])

\* f"last{count_limit}", count_limit below ten
LastN(count_limit) == <<"l", "a", "s", "t", DigitChars[count_limit + 1]>>

\* the parts _save_data appends to symbol, period and dividend type
save_data_suffix(df, is_custom_range, use_special, original_start, original_end, count_limit) ==
    (IF use_special
     THEN IF original_start # Nothing /\ original_end # Nothing
          THEN IF original_start = original_end THEN <<original_start[1]>>
               ELSE <<original_start[1] \o <<"_">> \o original_end[1]>>
          ELSE IF original_start # Nothing THEN <<original_start[1]>>
          ELSE <<original_end[1]>>
     ELSE IF is_custom_range /\ df # <<>>
     THEN LET first == CHOOSE d \in DatesOf(df) : \A e \in DatesOf(df) : d <= e
              last == MaxDate(DatesOf(df))
          IN IF first = last THEN <<strftime_compact(first)>>
             ELSE <<strftime_compact(first), strftime_compact(last)>>
     ELSE <<>>)
    \o (IF count_limit # Nothing /\ count_limit[1] > 0
        THEN <<LastN(count_limit[1])>> ELSE <<>>)

\* the symbol and dividend type of the collector
CollectorCode == Code_600689_SH

\* get_kline_data(period, start_date, end_date, count_limit=...), given the
\* list get_trading_dates_from_xtdata() returns, the clock and what the
\* provider does
get_kline_data_dated(period, start_date, end_date, count_limit, trading_dates, now, answer) ==
    LET latest == get_latest_trading_date(trading_dates, now)
        previous == get_previous_trading_date(trading_dates, latest, now)
        start == parse_date_param(start_date, latest, previous)
        end == parse_date_param(end_date, latest, previous)
        use_special == IsSpecial(start.original) \/ IsSpecial(end.original)
        is_custom_range == (start.actual # Nothing \/ end.actual # Nothing)
                              /\ ~use_special
        request == market_data_request(period, start.actual, end.actual, use_special)
        fetched == market_data_rows(answer.history, request)
        filtered == IF use_special
                    THEN filter_by_special_date(fetched, start.original, end.original)
                    ELSE fetched
        df == IF count_limit # Nothing /\ count_limit[1] > 0
              THEN TailRows(filtered, count_limit[1]) ELSE filtered
        parsed == [st |-> "returned",
                   actual_start |-> start.actual, actual_end |-> end.actual,
                   original_start |-> start.original, original_end |-> end.original,
                   request |-> NoQuery, history |-> answer.history,
                   fetched |-> <<>>, filter_applied |-> FALSE,
                   df |-> Nothing, file |-> Nothing]
    IN IF ~start.ok \/ ~end.ok
       THEN [parsed EXCEPT !.st = "raised"]
       ELSE IF answer.kind = "download_raises" THEN parsed
       ELSE IF answer.kind \in {"raise", "missing"}
       THEN [parsed EXCEPT !.request = request]
       ELSE IF fetched = <<>>
       THEN [parsed EXCEPT !.request = request]
       ELSE IF filtered = <<>>
       THEN [parsed EXCEPT !.request = request, !.fetched = fetched,
                           !.filter_applied = use_special]
       ELSE [parsed EXCEPT
               !.request = request, !.fetched = fetched,
               !.filter_applied = use_special,
               !.df = Some(df),
               !.file = Some(JoinUnderscore(
                           <<ReplaceDot(CollectorCode), FilenamePeriod(period), S_front>>
                           \o save_data_suffix(df, is_custom_range, use_special,
                                  start.original, end.original, count_limit))
                         \o S_kline_csv)]

\* whether the call reads the calendar: a special date is parsed, the start
\* first, the end only once the start is parsed
ReadsCalendar(start_date, end_date) ==
    LET start == parse_date_param(start_date, <<>>, <<>>)
        end == parse_date_param(end_date, <<>>, <<>>)
    IN IsSpecial(start.original) \/ (start.ok /\ IsSpecial(end.original))

\* the dates given to get_kline_data: none, the special dates as they are
\* and in capitals between blanks, dates, a date in another format
S_Today_blanks == <<" ", "T", "o", "d", "a", "y", " ">>
S_20250724 == <<"2", "0", "2", "5", "-", "0", "7", "-", "2", "4">>
S_20250725 == <<"2", "0", "2", "5", "-", "0", "7", "-", "2", "5">>
DateArguments ==
    {Nothing, Some(S_today), Some(S_yesterday), Some(S_Today_blanks),
     Some(S_20250724), Some(S_20250725), Some(E_20250725)}

DatedRequests ==
    [period : ConfiguredPeriods \cup {P_2h}, start_date : DateArguments,
     end_date : DateArguments, count_limit : {Nothing, Some(1)}]

\* the calendar provider's answers to these calls
KlineCalendarResponses ==
    {[kind |-> "dates_raises", entries |-> <<>>],
     [kind |-> "list", entries |-> <<TextEntry(E_20250725)>>],
     [kind |-> "list", entries |-> <<TextEntry(E_20250725), TextEntry(E_20250728)>>]}

\* Monday 28 July 2025, before nine and at nine
KlineInstants == {[day |-> 209, minute |-> HM(8, 59)], [day |-> 209, minute |-> HM(9, 0)]}

InitKline ==
    /\ InitOrch
    /\ nz_in = <<>>
    /\ nz_out = NotApplied
    /\ cal_module = "AllKLineData"
    /\ cal_now \in KlineInstants
    /\ InitCalendar
    /\ ThreadsIdle
    /\ NamesIdle
    /\ kq_req \in DatedRequests
    /\ kq_out = NotCalled

\* one call of get_kline_data
CallGetKlineData ==
    /\ kq_out = NotCalled
    /\ \E reads \in {ReadsCalendar(kq_req.start_date, kq_req.end_date)} :
       \E resp \in IF reads THEN KlineCalendarResponses
                   ELSE {[kind |-> "list", entries |-> <<>>]} :
       \E answer \in MarketAnswers :
       \E r \in {get_trading_dates_from_xtdata(cal_module, DefaultDaysBack, cal_now.day,
                      trading_dates_cache, api_warning_shown, provider_calls, resp)} :
          /\ kq_out' = get_kline_data_dated(kq_req.period, kq_req.start_date,
                           kq_req.end_date, kq_req.count_limit, r.result, cal_now,
                           answer)
          /\ IF reads
             THEN /\ trading_dates_cache' = r.cache
                  /\ api_warning_shown' = r.warned
                  /\ provider_calls' = r.calls
                  /\ warnings' = warnings + r.printed
             ELSE UNCHANGED <<trading_dates_cache, api_warning_shown, provider_calls,
                              warnings>>
    /\ UNCHANGED <<cal_module, cal_now, cal_returned, cal_last, kq_req, th, fn_req,
                   fn_out, orch_vars, nz_vars>>

NextKline == CallGetKlineData

SpecKline == InitKline /\ [][NextKline]_vars

\* ------------------------------------------------------------------------
\* The name of a candle file, expected and written
\* ------------------------------------------------------------------------
Code_000001_SZ == <<"0", "0", "0", "0", "0", "1", ".", "S", "Z">>
Code_000001_SH == <<"0", "0", "0", "0", "0", "1", ".", "S", "H">>
Code_430047_BJ == <<"4", "3", "0", "0", "4", "7", ".", "B", "J">>
S_none == <<"n", "o", "n", "e">>
S_back == <<"b", "a", "c", "k">>
\* normalized symbols, the dividend types, the configured periods
NamedFiles ==
    [stock_code : {Code_600689_SH, Code_000001_SZ, Code_000001_SH, Code_430047_BJ},
     dividend_type : {S_none, S_front, S_back},
     period : ConfiguredPeriods]

InitNames ==
    /\ InitOrch
    /\ nz_in = <<>>
    /\ nz_out = NotApplied
    /\ CalendarIdle
    /\ ThreadsIdle
    /\ KlineIdle
    /\ fn_req \in NamedFiles
    /\ fn_out = NotNamed

\* perform_instant_update derives the name; the collector saves the period
NameFile ==
    /\ fn_out = NotNamed
    /\ fn_out' = [expected |-> expected_kline_filename(fn_req.stock_code, fn_req.period,
                                                       fn_req.dividend_type),
                  written |-> save_data_filename(fn_req.stock_code, fn_req.dividend_type,
                                                 fn_req.period)]
    /\ UNCHANGED <<fn_req, th, kq_req, kq_out, orch_vars, nz_vars, cal_vars>>

NextNames == NameFile

SpecNames == InitNames /\ [][NextNames]_vars

\* ------------------------------------------------------------------------
\* Properties
\* ------------------------------------------------------------------------
\* a call is inside `with lock`: sub-tasks submitted, joining or unwinding,
\* previews not yet read
InSection(c) == pc[c] \in {"join", "unwind"}
\* a call has been made and has not returned or raised
InProgress(c) == pc[c] \notin {"idle", "raised", "done"}
\* a call holds a reference to its symbol's lock
HasLock(c) == lock[c] # 0
OtherSpelling(a, b) == args[a].stock_code # args[b].stock_code

\* C1: two calls whose symbols normalize to the same code are never inside
\* their locked fan-out sections at the same time.
C1_PerSymbolSerialization ==
    \A a, b \in Callers :
        (a # b /\ InSection(a) /\ InSection(b))
            => normalized_code[a] # normalized_code[b]

\* one spelling of a symbol is in its section with a sub-task running while
\* a call with another spelling of the same symbol waits for the lock
C1_Witness ==
    \E a, b \in Callers :
        /\ a # b
        /\ normalized_code[a] = normalized_code[b]
        /\ OtherSpelling(a, b)
        /\ InSection(a)
        /\ realtime[a].st = "running"
        /\ pc[b] = "acquire"

\* C2: the symbol lock is released on every exit path: no call that has
\* returned holds a lock, and a symbol with no call in progress has a free lock.
C2_LockReleasedOnEveryExit ==
    /\ \A c \in Callers :
          pc[c] = "done" => \A l \in DOMAIN lockObjs : lockObjs[l] # c
    /\ \A key \in DOMAIN STOCK_LOCKS :
          (\A c \in Callers : InProgress(c) => LockKey(normalized_code[c]) # key)
              => lockObjs[STOCK_LOCKS[key]] = Unlocked

\* one call has returned after an exception escaped its fan-out, another has
\* returned successfully although a period gave no data, and the locks are free
C2_Witness ==
    \E a, b \in Callers :
        /\ pc[a] = "done" /\ ~result[a].success
        /\ lockObjs[lock[a]] = Unlocked
        /\ pc[b] = "done" /\ result[b].success
        /\ \E i \in DOMAIN kline[b].log : kline[b].log[i] = "None"
        /\ lockObjs[lock[b]] = Unlocked

\* C3, as claimed: when the real-time sub-task raises the result is still a
\* success with a preview for every period persisted, and when the candle
\* sub-task raises the quote retrieved is still returned in realtime_data.
C3_PartialFailureContained ==
    \A c \in Callers :
        pc[c] = "done" =>
            /\ (realtime[c].st = "raised" /\ kline[c].st = "returned")
                  => /\ result[c].success
                     /\ \A p \in DOMAIN kline[c].results :
                           /\ p \in DOMAIN result[c].kline_preview
                           /\ result[c].kline_preview[p] # <<>>
            /\ (kline[c].st = "raised" /\ realtime[c].st = "returned")
                  => result[c].realtime_data = realtime[c].value

\* C4: every accepted spelling of code and exchange (code first with nothing
\* or . _ - between, or exchange first; any letter case; blanks around) gives
\* the canonical CODE.EX, and a bare six-digit code is refused for its missing
\* exchange.
ClaimedForms(code, e) ==
    CodeFirstForms(code, e) \cup {x \o code : x \in ExchangeSpellings[e]}
C4_NormalizationEquivalence ==
    nz_out # NotApplied =>
        /\ \A code \in SixDigitCodes, e \in {"SH", "SZ"} :
              nz_in \in Padded(ClaimedForms(code, e))
                  => nz_out = Ok(Canonical(code, e))
        /\ nz_in \in Padded(SixDigitCodes) => nz_out = Err("MissingExchange")

\* " 600689_sh" has been normalized to 600689.SH
C4_Witness ==
    /\ nz_in = <<" ", "6", "0", "0", "6", "8", "9", "_", "s", "h">>
    /\ nz_out = Ok(Code_600689_SH)

\* C5: a call with an invalid symbol fails before any lock is created or
\* taken and before any I/O: the step that raises changes neither the
\* registry, nor a lock, nor the data directory, nor a sub-task; such a call
\* never holds a lock reference, and only a call whose symbol is invalid raises.
C5_InvalidSymbolFailsFast ==
    /\ [][\A c \in Callers :
            (pc[c] = "idle" /\ pc'[c] = "raised")
                => UNCHANGED <<STOCK_LOCKS, lockObjs, GLOBAL_LOCK, disk,
                               kline, realtime, lock>>]_vars
    /\ [](\A c \in Callers :
            /\ pc[c] = "raised"
                 => /\ ~normalize_stock_code(args[c].stock_code).ok
                    /\ ~HasLock(c)
                    /\ kline[c].st = "absent" /\ realtime[c].st = "absent"
            /\ InProgress(c) => normalize_stock_code(args[c].stock_code).ok)

\* a call with a bare code has raised while another call holds its lock with
\* a file already written
C5_Witness ==
    \E a, b \in Callers :
        /\ pc[a] = "raised"
        /\ InSection(b) /\ lockObjs[lock[b]] = b
        /\ DOMAIN disk # {}

\* C6: every _get_stock_lock call for one symbol returns the same lock
\* object; an entry of the registry is created once and never replaced or
\* removed.
C6_OneLockPerSymbol ==
    /\ [](\A a, b \in Callers :
            (HasLock(a) /\ HasLock(b) /\ normalized_code[a] = normalized_code[b])
                => lock[a] = lock[b])
    /\ [](Len(lockObjs) = Cardinality(DOMAIN STOCK_LOCKS))
    /\ [][\A key \in DOMAIN STOCK_LOCKS :
            /\ key \in DOMAIN STOCK_LOCKS'
            /\ STOCK_LOCKS'[key] = STOCK_LOCKS[key]]_vars

\* two calls spelling one symbol differently hold the same lock object, the
\* second having found the entry the first inserted
C6_Witness ==
    \E a, b \in Callers :
        /\ a # b
        /\ OtherSpelling(a, b)
        /\ normalized_code[a] = normalized_code[b]
        /\ HasLock(a) /\ lock[a] = lock[b]
        /\ Len(lockObjs) = 1

\* C7: calls for different symbols never share a lock, so a call waiting for
\* its lock waits only for a call of the same symbol.
C7_DifferentSymbolsIndependent ==
    /\ \A a, b \in Callers :
          (HasLock(a) /\ HasLock(b) /\ normalized_code[a] # normalized_code[b])
              => lock[a] # lock[b]
    /\ \A a \in Callers :
          (pc[a] = "acquire" /\ lockObjs[lock[a]] # Unlocked)
              => normalized_code[lockObjs[lock[a]]] = normalized_code[a]

\* calls for two different symbols are inside their locked sections at once,
\* each with a sub-task running
C7_Witness ==
    \E a, b \in Callers :
        /\ normalized_code[a] # normalized_code[b]
        /\ InSection(a) /\ InSection(b)
        /\ lockObjs[lock[a]] = a /\ lockObjs[lock[b]] = b
        /\ realtime[a].st = "running"
        /\ kline[b].st = "running"

\* the state right after `with lock` is entered and the sub-tasks are submitted
FreshFanOut(c) ==
    /\ pc[c] = "join"
    /\ lockObjs[lock[c]] = c
    /\ consumed[c] = {}
    /\ kline[c].st = (IF args[c].periods # <<>> THEN "running" ELSE "absent")
    /\ kline[c].log = <<>>
    /\ realtime[c].st = (IF args[c].include_realtime THEN "running" ELSE "absent")
    /\ ~result[c].success

\* C8: among concurrent calls for one symbol, a call waiting for the lock
\* eventually takes it, after the holder released it, and then runs its own
\* fan-out, with its own sub-tasks submitted and nothing of a result yet.
C8_WaiterRunsFresh ==
    \A c \in Callers : (pc[c] = "acquire") ~> FreshFanOut(c)

\* the second call for a symbol runs its own fan-out after the first returned
C8_Witness ==
    \E a, b \in Callers :
        /\ a # b
        /\ normalized_code[a] = normalized_code[b]
        /\ pc[a] = "done" /\ result[a].success
        /\ lock[a] = lock[b]
        /\ FreshFanOut(b)

\* an exception escaped the fan-out of a call
Escaped(c) == kline[c].st = "raised" \/ realtime[c].st = "raised"

\* C9, as claimed: the result is marked failed only when an exception escaped,
\* and a result marked succeeded reflects what this call retrieved: the quote
\* of this call, and rows only for the periods this call persisted.
C9_SuccessReflectsThisCall ==
    \A c \in Callers :
        pc[c] = "done" =>
            /\ ~result[c].success <=> Escaped(c)
            /\ result[c].success =>
                  /\ result[c].realtime_data = realtime[c].value
                  /\ \A p \in DOMAIN result[c].kline_preview :
                        result[c].kline_preview[p] # <<>>
                            => p \in DOMAIN kline[c].results

\* the file a period of a call is saved to
FileOf(c, i) ==
    save_data_filename(normalized_code[c], args[c].dividend_type, args[c].periods[i])

\* C10: a period whose retrieval failed does not end the loop of the candle
\* sub-task: a task that returned has fetched every period of the list, and
\* while the call is in its section every period that gave data is on disk
\* with the rows fetched.
C10_LoopContinuesAfterFailure ==
    \A c \in Callers :
        /\ kline[c].st = "returned" => Len(kline[c].log) = Len(args[c].periods)
        /\ InSection(c) =>
              \A i \in DOMAIN kline[c].log :
                  kline[c].log[i] = "df"
                      => /\ FileOf(c, i) \in DOMAIN disk
                         /\ disk[FileOf(c, i)] = kline[c].results[args[c].periods[i]]

\* the first period of a list gave nothing, the second was fetched and saved
C10_Witness ==
    \E c \in Callers :
        /\ kline[c].st = "returned"
        /\ kline[c].log = <<"None", "df">>
        /\ FileOf(c, 2) \in DOMAIN disk
        /\ FileOf(c, 1) \notin DOMAIN disk

\* the sub-tasks of a call that are at work
RunningTasks(c) == {t \in {"kline", "realtime"} : TaskState(c, t) = "running"}

\* the files a step wrote
Written == {f \in DOMAIN disk' : f \notin DOMAIN disk \/ disk'[f] # disk[f]}

\* C11: a call has at most two sub-tasks, one candle task and one real-time
\* task; the candle task takes the periods one at a time in the order of the
\* list: a step of it fetches and saves the one period after those already
\* done, and no candle of the call is on disk for a period it has not reached.
C11_PeriodsInOrder ==
    /\ [](\A c \in Callers :
            /\ RunningTasks(c) \subseteq Submitted(c)
            /\ Cardinality(Submitted(c)) <= 2
            /\ kline[c].st \in {"running", "returned"} =>
                  \A i \in DOMAIN args[c].periods :
                      (/\ FileOf(c, i) \in DOMAIN disk
                       /\ disk[FileOf(c, i)] = Candles(c))
                          => i <= Len(kline[c].log))
    /\ [][\A c \in Callers :
            (kline[c].st = "running" /\ kline'[c] # kline[c])
                => /\ Written \subseteq {FileOf(c, Len(kline[c].log) + 1)}
                   /\ kline'[c].st # "raised"
                         => /\ Len(kline'[c].log) = Len(kline[c].log) + 1
                            /\ SubSeq(kline'[c].log, 1, Len(kline[c].log)) = kline[c].log]_vars

\* of a two-period list the first period is saved and the second not yet
\* fetched, while in another call the quote is back before the first candle
C11_Witness ==
    \E a, b \in Callers :
        /\ kline[a].st = "running"
        /\ kline[a].log = <<"df">>
        /\ Len(args[a].periods) = 2
        /\ disk[FileOf(a, 1)] = Candles(a)
        /\ FileOf(a, 2) \notin DOMAIN disk
        /\ kline[b].st = "running" /\ kline[b].log = <<>>
        /\ realtime[b].st = "returned"

\* C12: while a sub-task of a call is still running the call has neither
\* returned nor released its symbol's lock; this covers the path where the
\* first sub-task to complete raised.
C12_JoinBeforeReturn ==
    \A c \in Callers :
        RunningTasks(c) # {}
            => /\ InSection(c)
               /\ lockObjs[lock[c]] = c

\* a call whose real-time task raised waits, lock held, for its candle task
C12_Witness ==
    \E c \in Callers :
        /\ pc[c] = "unwind"
        /\ realtime[c].st = "raised"
        /\ kline[c].st = "running"
        /\ lockObjs[lock[c]] = c

\* the period the provider is asked for: from days_back days ago to now
\* (AllKLineData) or to ten days ahead (RealTimePrice)
QueryWindow(module, days_back, day) ==
    (day - days_back)..(day + (IF module = "RealTimePrice" THEN 10 ELSE 0))

\* the last call was get_trading_dates_from_xtdata
GotTradingDates == cal_last.op = "get_trading_dates"
\* the last call was get_latest_trading_date, at the instant the clock shows
GotLatest == cal_last.op = "get_latest_trading_date"
\* the last call was get_previous_trading_date
GotPrevious == cal_last.op = "get_previous_trading_date"
\* today's date as the functions write it
Today == strftime(cal_now.day)

\* an entry of the list lies before x
HasEarlier(list, x) == \E i \in DOMAIN list : StrLess(list[i], x)
\* p is the entry of the list immediately before x: the greatest one below x
IsPredecessor(list, p, x) ==
    /\ p \in Range(list)
    /\ StrLess(p, x)
    /\ \A q \in Range(list) : StrLess(q, x) => (q = p \/ StrLess(q, p))

\* C13, as claimed: whatever the provider answers, the list
\* get_trading_dates_from_xtdata returns is strictly ascending (so free of
\* duplicates) and each of its elements is a calendar date.
C13_CalendarMonotone ==
    GotTradingDates =>
        /\ \A i \in 1..(Len(cal_last.dates) - 1) :
              StrLess(cal_last.dates[i], cal_last.dates[i + 1])
        /\ \A i \in DOMAIN cal_last.dates : IsCalendarDate(cal_last.dates[i])

\* C14: a call of get_trading_dates_from_xtdata with a days_back it was
\* called with before returns the list returned then and makes no provider
\* call, neither the holiday refresh nor the query, whether that list came
\* from the provider or from the fallback.
C14_IdempotentCache ==
    [][\A w \in WindowDays :
          (/\ cal_last'.op = "get_trading_dates"
           /\ cal_last'.days_back = w
           /\ w \in DOMAIN cal_returned)
              => /\ cal_last'.dates = cal_returned[w]
                 /\ provider_calls' = provider_calls]_vars

\* a second call, a day after the fallback answered the first, returned the
\* cached list, which is no longer the fallback of the day, with one holiday
\* refresh made in all
C14_Witness ==
    /\ GotTradingDates
    /\ cal_last.source = "cache"
    /\ api_warning_shown
    /\ DOMAIN trading_dates_cache = {cal_last.days_back}
    /\ cal_last.dates # get_fallback_trading_dates(cal_module, cal_last.days_back, cal_now.day)
    /\ provider_calls.holiday = 1

\* C15, as claimed: when the provider raises or answers nothing the function
\* returns the fallback calendar, which holds exactly the Monday-to-Friday
\* dates of the window from days_back days ago to the end of the period asked
\* of the provider.
C15_FallbackWeekdays ==
    (GotTradingDates /\ cal_last.source = "fallback") =>
        Range(cal_last.dates) =
            {strftime(d) : d \in {x \in QueryWindow(cal_module, cal_last.days_back, cal_now.day) :
                                     weekday(x) < 5}}

C17_PreMarketPredecessor ==
    (/\ GotLatest
     /\ Today \in Range(cal_last.dates)
     /\ HourOf(cal_now.minute) < 9
     /\ HasEarlier(cal_last.dates, Today))
        => IsPredecessor(cal_last.dates, cal_last.date, Today)

\* Monday 28 July at 08:59, the calendar holding Friday 25 and Monday 28:
\* Friday is returned
C17_Witness ==
    /\ GotLatest
    /\ cal_now = [day |-> 209, minute |-> HM(8, 59)]
    /\ cal_last.dates = <<strftime(206), strftime(209)>>
    /\ cal_last.date = strftime(206)

\* C18: with today not in the calendar, get_latest_trading_date returns the
\* greatest entry below today, or the last entry when there is none below;
\* with an empty calendar it returns today; with a calendar that is not empty
\* what it returns is an entry of the calendar.
C18_TodayAbsent ==
    GotLatest =>
        /\ cal_last.dates = <<>> => cal_last.date = Today
        /\ cal_last.dates # <<>> => cal_last.date \in Range(cal_last.dates)
        /\ (cal_last.dates # <<>> /\ Today \notin Range(cal_last.dates)) =>
              IF HasEarlier(cal_last.dates, Today)
              THEN IsPredecessor(cal_last.dates, cal_last.date, Today)
              ELSE cal_last.date = cal_last.dates[Len(cal_last.dates)]

\* on Saturday, the calendar holding two different entries before it and not
\* the day itself: the later of the two is returned
C18_Witness ==
    /\ GotLatest
    /\ weekday(cal_now.day) = 5
    /\ Today \notin Range(cal_last.dates)
    /\ Len(cal_last.dates) = 2
    /\ StrLess(cal_last.dates[1], cal_last.dates[2])
    /\ StrLess(cal_last.dates[2], Today)
    /\ cal_last.date = cal_last.dates[2]

\* C19, as claimed: with t what get_latest_trading_date returns for the same
\* calendar and instant, get_previous_trading_date returns the entry
\* immediately before t when there is one, and t when t is the earliest entry.
C19_YesterdayIsPredecessor ==
    GotPrevious =>
        LET t == get_latest_trading_date(cal_last.dates, cal_now) IN
        /\ HasEarlier(cal_last.dates, t)
              => IsPredecessor(cal_last.dates, cal_last.date, t)
        /\ (t \in Range(cal_last.dates) /\ ~HasEarlier(cal_last.dates, t))
              => cal_last.date = t

\* C20, as claimed: with a calendar of exactly one entry,
\* get_previous_trading_date returns that entry.
C20_SingleEntryCalendar ==
    (GotPrevious /\ Len(cal_last.dates) = 1) => cal_last.date = cal_last.dates[1]

\* C25, as claimed: a holiday refresh that raises does not abort the calendar
\* fetch, the trading-date query is still issued; so the provider has been
\* asked for the dates as many times as for the holiday refresh.
C25_HolidayRefreshBestEffort ==
    provider_calls.dates = provider_calls.holiday

\* C27: the value stored under a days_back key, a fallback calendar as much
\* as a provider list, is never replaced nor removed, and no calendar call
\* that reads a stored days_back contacts the provider, whatever the provider
\* would answer by then.
C27_FallbackCachedForGood ==
    [][\A w \in DOMAIN trading_dates_cache :
          /\ w \in DOMAIN trading_dates_cache'
          /\ trading_dates_cache'[w] = trading_dates_cache[w]
          /\ (cal_last'.op # "none" /\ cal_last'.days_back = w)
                => provider_calls' = provider_calls]_vars

\* a call made on a later day than the failed call returned, from the cache,
\* the fallback calendar of that earlier day
C27_Witness ==
    /\ cal_last.op # "none"
    /\ cal_last.source = "cache"
    /\ api_warning_shown
    /\ \E d \in ClockDays :
          /\ d < cal_now.day
          /\ cal_last.dates
               = get_fallback_trading_dates(cal_module, cal_last.days_back, d)
          /\ trading_dates_cache[cal_last.days_back] = cal_last.dates
    /\ cal_last.dates
         # get_fallback_trading_dates(cal_module, cal_last.days_back, cal_now.day)

\* a call whose provider request failed is about to store its fallback and
\* return
FailedCallReturning == \E t \in Callers : th[t].pc = "store" /\ th[t].failed

\* C26, as claimed: whatever the calls of one process, their days_back, their
\* failures and their interleaving, the degradation warning is printed once,
\* at the first failure, and never again: never two warnings, and one warning
\* printed by the time a failed call returns.
C26_WarnedExactlyOnce ==
    /\ warnings <= 1
    /\ FailedCallReturning => warnings = 1

\* get_kline_data returned, having sent a request to get_market_data_ex
Queried == kq_out.st = "returned" /\ kq_out.request # NoQuery
\* the argument is one of the special dates, in any case, between blanks or not
IsToken(date) == date # Nothing /\ Strip(Lower(date[1])) \in SpecialDates
\* the argument is a date written out
IsExplicit(date) == date # Nothing /\ ~IsToken(date)
\* the default counts as the specification lists them
ListedCount(period) ==
    IF period \in {P_1m, P_5m} THEN 500
    ELSE IF period = P_15m THEN 300
    ELSE IF period = P_30m THEN 200
    ELSE IF period = P_60m THEN 100
    ELSE -1
CountRequest(n) == [kind |-> "count", count |-> n, start_time |-> <<>>, end_time |-> <<>>]

\* C21: get_kline_data chooses its request by the date arguments. Without
\* dates: a count request with the period's default count (500, 500, 300,
\* 200, 100 for 1m, 5m, 15m, 30m, 60m; -1 for 1d, 1w, 1M) and no filter. With
\* two dates written out: a range request with exactly those bounds and
\* count -1. With today or yesterday as start or end: a count request
\* without bounds, of the default count if positive and of 1000 otherwise,
\* and the rows returned are picked from the fetched rows by the date filter.
C21_StrategySelection ==
    (Queried /\ kq_req.period \in ConfiguredPeriods) =>
        /\ (kq_req.start_date = Nothing /\ kq_req.end_date = Nothing)
              => /\ kq_out.request = CountRequest(ListedCount(kq_req.period))
                 /\ ~kq_out.filter_applied
        /\ (IsExplicit(kq_req.start_date) /\ IsExplicit(kq_req.end_date))
              => /\ kq_out.request =
                       [kind |-> "range", count |-> -1,
                        start_time |-> Strip(Lower(kq_req.start_date[1])),
                        end_time |-> Strip(Lower(kq_req.end_date[1]))]
                 /\ ~kq_out.filter_applied
        /\ (IsToken(kq_req.start_date) \/ IsToken(kq_req.end_date))
              => /\ kq_out.request =
                       CountRequest(IF ListedCount(kq_req.period) > 0
                                    THEN ListedCount(kq_req.period) ELSE 1000)
                 /\ kq_out.fetched # <<>> => kq_out.filter_applied
                 /\ kq_out.df # Nothing
                       => Range(kq_out.df[1]) \subseteq Range(kq_out.fetched)

\* a daily request from yesterday on fetched the last 1000 candles and
\* returned fewer rows than it fetched
C21_Witness ==
    /\ Queried
    /\ kq_req.period = P_1d
    /\ kq_out.original_start = Some(S_yesterday)
    /\ kq_out.request.count = 1000
    /\ kq_out.df # Nothing
    /\ kq_req.count_limit = Nothing
    /\ Len(kq_out.df[1]) < Len(kq_out.fetched)

\* C22, as claimed: when yesterday is asked for, as start or as end, and the
\* fetched rows hold fewer than two distinct dates, get_kline_data returns no
\* rows.
C22_YesterdayNeedsTwoDates ==
    (/\ Queried
     /\ kq_out.original_start = Some(S_yesterday)
           \/ kq_out.original_end = Some(S_yesterday)
     /\ kq_out.fetched # <<>>
     /\ Cardinality(DatesOf(kq_out.fetched)) < 2)
        => kq_out.df = Nothing

\* get_kline_data returned rows to a request that starts today
TodayRows ==
    /\ Queried
    /\ kq_out.original_start = Some(S_today)
    /\ kq_out.df # Nothing

\* C23, as claimed: with today as start, every row returned has the date
\* parse_date_param resolved today to.
C23_RowsOfResolvedToday ==
    TodayRows =>
        \A i \in DOMAIN kq_out.df[1] :
            strftime(kq_out.df[1][i].date) = kq_out.actual_start[1]

\* C23, amended: with today as start, every row returned has one date, the
\* latest date of the fetched rows.
C23_RowsOfLatestFetchedDate ==
    TodayRows =>
        \A i \in DOMAIN kq_out.df[1] :
            kq_out.df[1][i].date = MaxDate(DatesOf(kq_out.fetched))

\* rows of an earlier date were fetched and left out, and the date of the
\* rows returned is not the date today was resolved to
C23_Witness ==
    /\ TodayRows
    /\ Len(kq_out.df[1]) < Len(kq_out.fetched)
    /\ strftime(kq_out.df[1][1].date) # kq_out.actual_start[1]

\* one date written out, the other absent
OneBound ==
    \/ IsExplicit(kq_req.start_date) /\ kq_req.end_date = Nothing
    \/ kq_req.start_date = Nothing /\ IsExplicit(kq_req.end_date)

Succeeded(c) == pc[c] = "done" /\ result[c].success
\* the last n rows of a file, all when it has fewer, none for n below zero
LastRows(rows, n) ==
    IF n <= 0 THEN <<>>
    ELSE IF n >= Len(rows) THEN rows
    ELSE SubSeq(rows, Len(rows) - n + 1, Len(rows))

\* C24, as claimed: after a successful instant query, for every integer
\* preview_limit the API accepts, the preview of a period holds the last
\* preview_limit rows of its file, all of them when the file has fewer, and
\* never more than preview_limit rows.
C24_PreviewIsLastRows ==
    \A c \in Callers :
        Succeeded(c) =>
            \A p \in DOMAIN result[c].kline_preview :
                /\ Len(result[c].kline_preview[p]) <= args[c].preview_limit
                /\ \/ result[c].kline_preview[p] = <<>>
                   \/ \E w \in Callers :
                        result[c].kline_preview[p]
                            = LastRows(Candles(w), args[c].preview_limit)

ListsEveryPeriod(c) ==
    /\ DOMAIN result[c].kline_files = Range(args[c].periods)
    /\ \A p \in DOMAIN result[c].kline_files :
          result[c].kline_files[p]
              = expected_kline_filename(normalized_code[c], p, args[c].dividend_type)
\* no other call has been made
CalledAlone(c) == \A o \in Callers \ {c} : pc[o] = "idle"

\* C30, as claimed: kline_files lists the expected name of every period asked
\* for, retrieved or not; a preview with rows comes from a file that exists
\* under that name; and the preview is empty only when no file of that name
\* exists (stated where the files are as the call read them: it was made alone).
C30_PreviewEmptyOnlyWithoutFile ==
    \A c \in Callers :
        Succeeded(c) =>
            /\ ListsEveryPeriod(c)
            /\ \A p \in DOMAIN result[c].kline_preview :
                  /\ result[c].kline_preview[p] # <<>>
                        => result[c].kline_files[p] \in DOMAIN disk
                  /\ (CalledAlone(c) /\ result[c].kline_preview[p] = <<>>)
                        => result[c].kline_files[p] \notin DOMAIN disk

\* the limit selects no row of the file: zero, or a negative limit that skips
\* every row
SelectsNoRow(rows, limit) == limit = 0 \/ (limit < 0 /\ 0 - limit >= Len(rows))

\* C30, amended: kline_files lists the expected name of every period asked
\* for, retrieved or not; when a call returns, the preview of each period is
\* read from the file then under that name, whoever wrote it, and it is empty
\* only when no such file exists or preview_limit selects no row.
C30_PreviewFromWhateverFile ==
    [][\A c \in Callers :
          (pc[c] = "join" /\ pc'[c] = "done" /\ result'[c].success) =>
              /\ DOMAIN result'[c].kline_files = Range(args[c].periods)
              /\ DOMAIN result'[c].kline_preview = Range(args[c].periods)
              /\ \A p \in Range(args[c].periods) :
                   LET fname == expected_kline_filename(normalized_code[c], p,
                                                        args[c].dividend_type)
                       rows == result'[c].kline_preview[p]
                   IN /\ result'[c].kline_files[p] = fname
                      /\ rows # <<>> =>
                            /\ fname \in DOMAIN disk
                            /\ rows = TailRows(disk[fname], args[c].preview_limit)
                      /\ rows = <<>> =>
                            \/ fname \notin DOMAIN disk
                            \/ SelectsNoRow(disk[fname], args[c].preview_limit)]_vars

\* a call whose retrieval of a period gave nothing returned, as that period's
\* preview, rows that another call had saved
C30_Witness ==
    \E c \in Callers :
        /\ Succeeded(c)
        /\ args[c].preview_limit > 0
        /\ \E p \in DOMAIN result[c].kline_preview :
              /\ p \notin DOMAIN kline[c].results
              /\ result[c].kline_preview[p] # <<>>
              /\ result[c].kline_preview[p][1].by # c

====
